---- MODULE Spec2Model ----
(***************************************************************************)
(* A model of the AI paper blog content generator                          *)
(* (src/content-generator): the article generator, the daily automation,   *)
(* the blog automation and the content manager.                            *)
(*                                                                         *)
(* Strings are sequences of one-character strings, so that split, strip,   *)
(* lower, concatenation and the regular expressions of the code are        *)
(* computed here as the code computes them.  A JSON object is a TLA+       *)
(* record whose DOMAIN is the object's key set.                            *)
(***************************************************************************)
EXTENDS Integers, Sequences, FiniteSets, TLC

VARIABLES
    today,      \* the calendar day of datetime.now(), as a day index
    corpus,     \* <blog>/src/data/articles.json: the file ContentManager writes
                \* and the daily run loads (the scripts run where
                \* ../ai-paper-blog is the blog path of ContentManager)
    gen_dir,    \* generated_content/articles/ : file name -> JSON content
    art_dir,    \* articles/ : file name -> JSON content
    call,       \* the inputs of the call under study (batch and selection)
    ret         \* the operation last run and what it returned and printed

vars == <<today, corpus, gen_dir, art_dir, call, ret>>

----------------------------------------------------------------------------
(* Bounds of the model *)

\* the clock runs over the days 0..MaxDay
MaxDay == 1
\* a batch handed to a generation loop holds at most MaxBatch papers
MaxBatch == 2
\* candidate sequences of the selection step hold at most MaxCand papers
MaxCand == 4
\* relevance scores of the selection step range over 0..MaxScore
MaxScore == 1
\* limits of the selection step range over 0..MaxLimit
MaxLimit == 2

\* the longest paper title of the calls of _create_article_id
MaxTitle == 4
\* the longest of these titles that hold letters beyond ASCII
MaxUnicodeTitle == 3

\* the longest of the short background texts
MaxBackground == 3

----------------------------------------------------------------------------
(* Python str operations *)

Range(f) == {f[x] : x \in DOMAIN f}

\* A character is a string of one character; a character that cannot be
\* written in a string of this module (a control character other than tab,
\* newline, form feed and carriage return, the grave accent, a character
\* beyond ASCII) is named by its code point ("U+0085").

\* the characters for which str.isspace() is true, which are the characters
\* that str.strip() and str.split() treat as white space and that \s matches
\* in a str pattern
Whitespace ==
    {"\t", "\n", "U+000B", "\f", "\r", "U+001C", "U+001D", "U+001E",
     "U+001F", " ", "U+0085", "U+00A0", "U+1680", "U+2000", "U+2001", "U+2002",
     "U+2003", "U+2004", "U+2005", "U+2006", "U+2007", "U+2008", "U+2009", "U+200A",
     "U+2028", "U+2029", "U+202F", "U+205F", "U+3000"}

\* str.isspace for one character
IsSpace(c) == c \in Whitespace

\* seq[:n], also for a negative n (all but the last -n elements)
SliceTo(seq, n) ==
    IF n >= 0
    THEN SubSeq(seq, 1, IF n < Len(seq) THEN n ELSE Len(seq))
    ELSE SubSeq(seq, 1, IF Len(seq) + n > 0 THEN Len(seq) + n ELSE 0)

RECURSIVE LStrip(_)
LStrip(s) == IF s # <<>> /\ IsSpace(Head(s)) THEN LStrip(Tail(s)) ELSE s

RECURSIVE RStrip(_)
RStrip(s) ==
    IF s # <<>> /\ IsSpace(s[Len(s)]) THEN RStrip(SubSeq(s, 1, Len(s) - 1)) ELSE s

\* str.strip()
Strip(s) == LStrip(RStrip(s))

\* len(s.split()): the number of maximal runs of non-space characters
WordCount(s) ==
    Cardinality({i \in 1..Len(s) :
        /\ ~IsSpace(s[i])
        /\ (i = 1 \/ IsSpace(s[i - 1]))})

\* the one element of a singleton set (binds a value that is used many times)
Only(S) == CHOOSE x \in S : TRUE

\* pat occurs in s at position i
MatchAt(s, pat, i) ==
    /\ i >= 1
    /\ i + Len(pat) - 1 <= Len(s)
    /\ SubSeq(s, i, i + Len(pat) - 1) = pat

\* the first position from i on at which pat occurs in s, and 0 when there
\* is none
FindFrom(s, pat, i) ==
    Only({LET hits == {k \in i..(Len(t) - Len(pat) + 1) : MatchAt(t, pat, k)}
          IN  IF hits = {} THEN 0 ELSE CHOOSE k \in hits : \A m \in hits : k <= m :
          t \in {SubSeq(s, 1, Len(s))}})

\* s.find(pat) + 1: the first position of pat in s, and 0 when pat does not
\* occur
Find(s, pat) == FindFrom(s, pat, 1)

\* pat in s
Contains(s, pat) == Find(s, pat) # 0

\* s.split(pat): the list of the pieces of s between occurrences of pat
RECURSIVE Split(_, _)
Split(s, pat) ==
    LET i == Find(s, pat) IN
    IF i = 0 THEN <<s>>
    ELSE <<SubSeq(s, 1, i - 1)>> \o Split(SubSeq(s, i + Len(pat), Len(s)), pat)

\* s.replace(a, b) for one-character a and b
Replace(s, a, b) == [i \in 1..Len(s) |-> IF s[i] = a THEN b ELSE s[i]]

\* s1 < s2 in Python's (lexicographic, code point) order, for the digit and
\* hyphen strings of dates; "-" sorts before every digit
CharRank(c) ==
    CASE c = "-" -> 0
      [] c = "0" -> 1 [] c = "1" -> 2 [] c = "2" -> 3 [] c = "3" -> 4
      [] c = "4" -> 5 [] c = "5" -> 6 [] c = "6" -> 7 [] c = "7" -> 8
      [] c = "8" -> 9 [] c = "9" -> 10
      [] OTHER -> 11

RECURSIVE StrLess(_, _)
StrLess(s1, s2) ==
    IF s2 = <<>> THEN FALSE
    ELSE IF s1 = <<>> THEN TRUE
    ELSE IF CharRank(Head(s1)) # CharRank(Head(s2))
         THEN CharRank(Head(s1)) < CharRank(Head(s2))
         ELSE StrLess(Tail(s1), Tail(s2))

\* str(n) for n >= 0
Digit(d) == <<"0", "1", "2", "3", "4", "5", "6", "7", "8", "9">>[d + 1]

RECURSIVE IntToStr(_)
IntToStr(n) == IF n < 10 THEN <<Digit(n)>> ELSE IntToStr(n \div 10) \o <<Digit(n % 10)>>

\* the %02d of strftime
Pad2(n) == IF n < 10 THEN <<"0">> \o IntToStr(n) ELSE IntToStr(n)

----------------------------------------------------------------------------
(* Characters: their code points, and the properties of the Unicode
   character database that str.lower() and the character class \w of a str
   pattern consult (Unicode 14.0.0, the version of CPython 3.11) *)

\* the characters of the code points 0..255, in order
Latin1 ==
    <<"U+0000", "U+0001", "U+0002", "U+0003", "U+0004", "U+0005", "U+0006", "U+0007",
      "U+0008", "\t", "\n", "U+000B", "\f", "\r", "U+000E", "U+000F",
      "U+0010", "U+0011", "U+0012", "U+0013", "U+0014", "U+0015", "U+0016", "U+0017",
      "U+0018", "U+0019", "U+001A", "U+001B", "U+001C", "U+001D", "U+001E", "U+001F",
      " ", "!", "\"", "#", "$", "%", "&", "'",
      "(", ")", "*", "+", ",", "-", ".", "/",
      "0", "1", "2", "3", "4", "5", "6", "7",
      "8", "9", ":", ";", "<", "=", ">", "?",
      "@", "A", "B", "C", "D", "E", "F", "G",
      "H", "I", "J", "K", "L", "M", "N", "O",
      "P", "Q", "R", "S", "T", "U", "V", "W",
      "X", "Y", "Z", "[", "\\", "]", "^", "_",
      "U+0060", "a", "b", "c", "d", "e", "f", "g",
      "h", "i", "j", "k", "l", "m", "n", "o",
      "p", "q", "r", "s", "t", "u", "v", "w",
      "x", "y", "z", "{", "|", "}", "~", "U+007F",
      "U+0080", "U+0081", "U+0082", "U+0083", "U+0084", "U+0085", "U+0086", "U+0087",
      "U+0088", "U+0089", "U+008A", "U+008B", "U+008C", "U+008D", "U+008E", "U+008F",
      "U+0090", "U+0091", "U+0092", "U+0093", "U+0094", "U+0095", "U+0096", "U+0097",
      "U+0098", "U+0099", "U+009A", "U+009B", "U+009C", "U+009D", "U+009E", "U+009F",
      "U+00A0", "U+00A1", "U+00A2", "U+00A3", "U+00A4", "U+00A5", "U+00A6", "U+00A7",
      "U+00A8", "U+00A9", "U+00AA", "U+00AB", "U+00AC", "U+00AD", "U+00AE", "U+00AF",
      "U+00B0", "U+00B1", "U+00B2", "U+00B3", "U+00B4", "U+00B5", "U+00B6", "U+00B7",
      "U+00B8", "U+00B9", "U+00BA", "U+00BB", "U+00BC", "U+00BD", "U+00BE", "U+00BF",
      "U+00C0", "U+00C1", "U+00C2", "U+00C3", "U+00C4", "U+00C5", "U+00C6", "U+00C7",
      "U+00C8", "U+00C9", "U+00CA", "U+00CB", "U+00CC", "U+00CD", "U+00CE", "U+00CF",
      "U+00D0", "U+00D1", "U+00D2", "U+00D3", "U+00D4", "U+00D5", "U+00D6", "U+00D7",
      "U+00D8", "U+00D9", "U+00DA", "U+00DB", "U+00DC", "U+00DD", "U+00DE", "U+00DF",
      "U+00E0", "U+00E1", "U+00E2", "U+00E3", "U+00E4", "U+00E5", "U+00E6", "U+00E7",
      "U+00E8", "U+00E9", "U+00EA", "U+00EB", "U+00EC", "U+00ED", "U+00EE", "U+00EF",
      "U+00F0", "U+00F1", "U+00F2", "U+00F3", "U+00F4", "U+00F5", "U+00F6", "U+00F7",
      "U+00F8", "U+00F9", "U+00FA", "U+00FB", "U+00FC", "U+00FD", "U+00FE", "U+00FF">>

HexDigits == <<"0", "1", "2", "3", "4", "5", "6", "7", "8", "9", "a", "b", "c", "d", "e", "f">>

UpperHexDigits == <<"0", "1", "2", "3", "4", "5", "6", "7", "8", "9", "A", "B", "C", "D", "E", "F">>

\* int(digits, 16) of hexadecimal digits of either case
HexValue(digits) ==
    LET V(c) == (CHOOSE k \in DOMAIN HexDigits : c \in {HexDigits[k], UpperHexDigits[k]}) - 1
        F[i \in 0..Len(digits)] == IF i = 0 THEN 0 ELSE 16 * F[i - 1] + V(digits[i])
    IN  F[Len(digits)]

\* the name of the character of a code point beyond Latin-1: U+ and the code
\* point in upper-case hexadecimal digits, four at least
CodePointName(code) ==
    LET H(n) == UpperHexDigits[(n % 16) + 1]
    IN  "U+" \o (IF code >= 1048576 THEN H(code \div 1048576) ELSE "")
             \o (IF code >= 65536 THEN H(code \div 65536) ELSE "")
             \o H(code \div 4096) \o H(code \div 256) \o H(code \div 16) \o H(code)

\* the code point of each character of Latin1: its place in the sequence
Latin1Code == [c \in Range(Latin1) |-> (CHOOSE k \in DOMAIN Latin1 : Latin1[k] = c) - 1]

\* ord(c): the code of a written character, the digits of a name
CodeOf(c) ==
    IF Len(c) = 1 THEN Latin1Code[c]
    ELSE HexValue([i \in 1..(Len(c) - 2) |-> SubSeq(c, i + 2, i + 2)])

\* chr(code)
CharOf(code) == IF code < Len(Latin1) THEN Latin1[code + 1] ELSE CodePointName(code)

\* the index, among rows[lo..hi], of the row <<first, last, ..>> with
\* first <= code <= last, and 0 if there is none; the rows are in ascending
\* order and do not overlap
RECURSIVE FindRow(_, _, _, _)
FindRow(code, rows, lo, hi) ==
    IF lo > hi THEN 0
    ELSE LET mid == (lo + hi) \div 2
         IN  IF code < rows[mid][1] THEN FindRow(code, rows, lo, mid - 1)
             ELSE IF code > rows[mid][2] THEN FindRow(code, rows, mid + 1, hi)
             ELSE mid

\* code lies in one of the ranges <<first, last>>
InRanges(code, ranges) == FindRow(code, ranges, 1, Len(ranges)) # 0

\* the code points of the characters that \w matches in a str pattern: those
\* for which str.isalnum() is true, and "_"
WordRanges ==
    <<<<\H0030, \H0039>>, <<\H0041, \H005A>>, <<\H005F, \H005F>>, <<\H0061, \H007A>>, <<\H00AA, \H00AA>>,
      <<\H00B2, \H00B3>>, <<\H00B5, \H00B5>>, <<\H00B9, \H00BA>>, <<\H00BC, \H00BE>>, <<\H00C0, \H00D6>>,
      <<\H00D8, \H00F6>>, <<\H00F8, \H02C1>>, <<\H02C6, \H02D1>>, <<\H02E0, \H02E4>>, <<\H02EC, \H02EC>>,
      <<\H02EE, \H02EE>>, <<\H0370, \H0374>>, <<\H0376, \H0377>>, <<\H037A, \H037D>>, <<\H037F, \H037F>>,
      <<\H0386, \H0386>>, <<\H0388, \H038A>>, <<\H038C, \H038C>>, <<\H038E, \H03A1>>, <<\H03A3, \H03F5>>,
      <<\H03F7, \H0481>>, <<\H048A, \H052F>>, <<\H0531, \H0556>>, <<\H0559, \H0559>>, <<\H0560, \H0588>>,
      <<\H05D0, \H05EA>>, <<\H05EF, \H05F2>>, <<\H0620, \H064A>>, <<\H0660, \H0669>>, <<\H066E, \H066F>>,
      <<\H0671, \H06D3>>, <<\H06D5, \H06D5>>, <<\H06E5, \H06E6>>, <<\H06EE, \H06FC>>, <<\H06FF, \H06FF>>,
      <<\H0710, \H0710>>, <<\H0712, \H072F>>, <<\H074D, \H07A5>>, <<\H07B1, \H07B1>>, <<\H07C0, \H07EA>>,
      <<\H07F4, \H07F5>>, <<\H07FA, \H07FA>>, <<\H0800, \H0815>>, <<\H081A, \H081A>>, <<\H0824, \H0824>>,
      <<\H0828, \H0828>>, <<\H0840, \H0858>>, <<\H0860, \H086A>>, <<\H0870, \H0887>>, <<\H0889, \H088E>>,
      <<\H08A0, \H08C9>>, <<\H0904, \H0939>>, <<\H093D, \H093D>>, <<\H0950, \H0950>>, <<\H0958, \H0961>>,
      <<\H0966, \H096F>>, <<\H0971, \H0980>>, <<\H0985, \H098C>>, <<\H098F, \H0990>>, <<\H0993, \H09A8>>,
      <<\H09AA, \H09B0>>, <<\H09B2, \H09B2>>, <<\H09B6, \H09B9>>, <<\H09BD, \H09BD>>, <<\H09CE, \H09CE>>,
      <<\H09DC, \H09DD>>, <<\H09DF, \H09E1>>, <<\H09E6, \H09F1>>, <<\H09F4, \H09F9>>, <<\H09FC, \H09FC>>,
      <<\H0A05, \H0A0A>>, <<\H0A0F, \H0A10>>, <<\H0A13, \H0A28>>, <<\H0A2A, \H0A30>>, <<\H0A32, \H0A33>>,
      <<\H0A35, \H0A36>>, <<\H0A38, \H0A39>>, <<\H0A59, \H0A5C>>, <<\H0A5E, \H0A5E>>, <<\H0A66, \H0A6F>>,
      <<\H0A72, \H0A74>>, <<\H0A85, \H0A8D>>, <<\H0A8F, \H0A91>>, <<\H0A93, \H0AA8>>, <<\H0AAA, \H0AB0>>,
      <<\H0AB2, \H0AB3>>, <<\H0AB5, \H0AB9>>, <<\H0ABD, \H0ABD>>, <<\H0AD0, \H0AD0>>, <<\H0AE0, \H0AE1>>,
      <<\H0AE6, \H0AEF>>, <<\H0AF9, \H0AF9>>, <<\H0B05, \H0B0C>>, <<\H0B0F, \H0B10>>, <<\H0B13, \H0B28>>,
      <<\H0B2A, \H0B30>>, <<\H0B32, \H0B33>>, <<\H0B35, \H0B39>>, <<\H0B3D, \H0B3D>>, <<\H0B5C, \H0B5D>>,
      <<\H0B5F, \H0B61>>, <<\H0B66, \H0B6F>>, <<\H0B71, \H0B77>>, <<\H0B83, \H0B83>>, <<\H0B85, \H0B8A>>,
      <<\H0B8E, \H0B90>>, <<\H0B92, \H0B95>>, <<\H0B99, \H0B9A>>, <<\H0B9C, \H0B9C>>, <<\H0B9E, \H0B9F>>,
      <<\H0BA3, \H0BA4>>, <<\H0BA8, \H0BAA>>, <<\H0BAE, \H0BB9>>, <<\H0BD0, \H0BD0>>, <<\H0BE6, \H0BF2>>,
      <<\H0C05, \H0C0C>>, <<\H0C0E, \H0C10>>, <<\H0C12, \H0C28>>, <<\H0C2A, \H0C39>>, <<\H0C3D, \H0C3D>>,
      <<\H0C58, \H0C5A>>, <<\H0C5D, \H0C5D>>, <<\H0C60, \H0C61>>, <<\H0C66, \H0C6F>>, <<\H0C78, \H0C7E>>,
      <<\H0C80, \H0C80>>, <<\H0C85, \H0C8C>>, <<\H0C8E, \H0C90>>, <<\H0C92, \H0CA8>>, <<\H0CAA, \H0CB3>>,
      <<\H0CB5, \H0CB9>>, <<\H0CBD, \H0CBD>>, <<\H0CDD, \H0CDE>>, <<\H0CE0, \H0CE1>>, <<\H0CE6, \H0CEF>>,
      <<\H0CF1, \H0CF2>>, <<\H0D04, \H0D0C>>, <<\H0D0E, \H0D10>>, <<\H0D12, \H0D3A>>, <<\H0D3D, \H0D3D>>,
      <<\H0D4E, \H0D4E>>, <<\H0D54, \H0D56>>, <<\H0D58, \H0D61>>, <<\H0D66, \H0D78>>, <<\H0D7A, \H0D7F>>,
      <<\H0D85, \H0D96>>, <<\H0D9A, \H0DB1>>, <<\H0DB3, \H0DBB>>, <<\H0DBD, \H0DBD>>, <<\H0DC0, \H0DC6>>,
      <<\H0DE6, \H0DEF>>, <<\H0E01, \H0E30>>, <<\H0E32, \H0E33>>, <<\H0E40, \H0E46>>, <<\H0E50, \H0E59>>,
      <<\H0E81, \H0E82>>, <<\H0E84, \H0E84>>, <<\H0E86, \H0E8A>>, <<\H0E8C, \H0EA3>>, <<\H0EA5, \H0EA5>>,
      <<\H0EA7, \H0EB0>>, <<\H0EB2, \H0EB3>>, <<\H0EBD, \H0EBD>>, <<\H0EC0, \H0EC4>>, <<\H0EC6, \H0EC6>>,
      <<\H0ED0, \H0ED9>>, <<\H0EDC, \H0EDF>>, <<\H0F00, \H0F00>>, <<\H0F20, \H0F33>>, <<\H0F40, \H0F47>>,
      <<\H0F49, \H0F6C>>, <<\H0F88, \H0F8C>>, <<\H1000, \H102A>>, <<\H103F, \H1049>>, <<\H1050, \H1055>>,
      <<\H105A, \H105D>>, <<\H1061, \H1061>>, <<\H1065, \H1066>>, <<\H106E, \H1070>>, <<\H1075, \H1081>>,
      <<\H108E, \H108E>>, <<\H1090, \H1099>>, <<\H10A0, \H10C5>>, <<\H10C7, \H10C7>>, <<\H10CD, \H10CD>>,
      <<\H10D0, \H10FA>>, <<\H10FC, \H1248>>, <<\H124A, \H124D>>, <<\H1250, \H1256>>, <<\H1258, \H1258>>,
      <<\H125A, \H125D>>, <<\H1260, \H1288>>, <<\H128A, \H128D>>, <<\H1290, \H12B0>>, <<\H12B2, \H12B5>>,
      <<\H12B8, \H12BE>>, <<\H12C0, \H12C0>>, <<\H12C2, \H12C5>>, <<\H12C8, \H12D6>>, <<\H12D8, \H1310>>,
      <<\H1312, \H1315>>, <<\H1318, \H135A>>, <<\H1369, \H137C>>, <<\H1380, \H138F>>, <<\H13A0, \H13F5>>,
      <<\H13F8, \H13FD>>, <<\H1401, \H166C>>, <<\H166F, \H167F>>, <<\H1681, \H169A>>, <<\H16A0, \H16EA>>,
      <<\H16EE, \H16F8>>, <<\H1700, \H1711>>, <<\H171F, \H1731>>, <<\H1740, \H1751>>, <<\H1760, \H176C>>,
      <<\H176E, \H1770>>, <<\H1780, \H17B3>>, <<\H17D7, \H17D7>>, <<\H17DC, \H17DC>>, <<\H17E0, \H17E9>>,
      <<\H17F0, \H17F9>>, <<\H1810, \H1819>>, <<\H1820, \H1878>>, <<\H1880, \H1884>>, <<\H1887, \H18A8>>,
      <<\H18AA, \H18AA>>, <<\H18B0, \H18F5>>, <<\H1900, \H191E>>, <<\H1946, \H196D>>, <<\H1970, \H1974>>,
      <<\H1980, \H19AB>>, <<\H19B0, \H19C9>>, <<\H19D0, \H19DA>>, <<\H1A00, \H1A16>>, <<\H1A20, \H1A54>>,
      <<\H1A80, \H1A89>>, <<\H1A90, \H1A99>>, <<\H1AA7, \H1AA7>>, <<\H1B05, \H1B33>>, <<\H1B45, \H1B4C>>,
      <<\H1B50, \H1B59>>, <<\H1B83, \H1BA0>>, <<\H1BAE, \H1BE5>>, <<\H1C00, \H1C23>>, <<\H1C40, \H1C49>>,
      <<\H1C4D, \H1C7D>>, <<\H1C80, \H1C88>>, <<\H1C90, \H1CBA>>, <<\H1CBD, \H1CBF>>, <<\H1CE9, \H1CEC>>,
      <<\H1CEE, \H1CF3>>, <<\H1CF5, \H1CF6>>, <<\H1CFA, \H1CFA>>, <<\H1D00, \H1DBF>>, <<\H1E00, \H1F15>>,
      <<\H1F18, \H1F1D>>, <<\H1F20, \H1F45>>, <<\H1F48, \H1F4D>>, <<\H1F50, \H1F57>>, <<\H1F59, \H1F59>>,
      <<\H1F5B, \H1F5B>>, <<\H1F5D, \H1F5D>>, <<\H1F5F, \H1F7D>>, <<\H1F80, \H1FB4>>, <<\H1FB6, \H1FBC>>,
      <<\H1FBE, \H1FBE>>, <<\H1FC2, \H1FC4>>, <<\H1FC6, \H1FCC>>, <<\H1FD0, \H1FD3>>, <<\H1FD6, \H1FDB>>,
      <<\H1FE0, \H1FEC>>, <<\H1FF2, \H1FF4>>, <<\H1FF6, \H1FFC>>, <<\H2070, \H2071>>, <<\H2074, \H2079>>,
      <<\H207F, \H2089>>, <<\H2090, \H209C>>, <<\H2102, \H2102>>, <<\H2107, \H2107>>, <<\H210A, \H2113>>,
      <<\H2115, \H2115>>, <<\H2119, \H211D>>, <<\H2124, \H2124>>, <<\H2126, \H2126>>, <<\H2128, \H2128>>,
      <<\H212A, \H212D>>, <<\H212F, \H2139>>, <<\H213C, \H213F>>, <<\H2145, \H2149>>, <<\H214E, \H214E>>,
      <<\H2150, \H2189>>, <<\H2460, \H249B>>, <<\H24EA, \H24FF>>, <<\H2776, \H2793>>, <<\H2C00, \H2CE4>>,
      <<\H2CEB, \H2CEE>>, <<\H2CF2, \H2CF3>>, <<\H2CFD, \H2CFD>>, <<\H2D00, \H2D25>>, <<\H2D27, \H2D27>>,
      <<\H2D2D, \H2D2D>>, <<\H2D30, \H2D67>>, <<\H2D6F, \H2D6F>>, <<\H2D80, \H2D96>>, <<\H2DA0, \H2DA6>>,
      <<\H2DA8, \H2DAE>>, <<\H2DB0, \H2DB6>>, <<\H2DB8, \H2DBE>>, <<\H2DC0, \H2DC6>>, <<\H2DC8, \H2DCE>>,
      <<\H2DD0, \H2DD6>>, <<\H2DD8, \H2DDE>>, <<\H2E2F, \H2E2F>>, <<\H3005, \H3007>>, <<\H3021, \H3029>>,
      <<\H3031, \H3035>>, <<\H3038, \H303C>>, <<\H3041, \H3096>>, <<\H309D, \H309F>>, <<\H30A1, \H30FA>>,
      <<\H30FC, \H30FF>>, <<\H3105, \H312F>>, <<\H3131, \H318E>>, <<\H3192, \H3195>>, <<\H31A0, \H31BF>>,
      <<\H31F0, \H31FF>>, <<\H3220, \H3229>>, <<\H3248, \H324F>>, <<\H3251, \H325F>>, <<\H3280, \H3289>>,
      <<\H32B1, \H32BF>>, <<\H3400, \H4DBF>>, <<\H4E00, \HA48C>>, <<\HA4D0, \HA4FD>>, <<\HA500, \HA60C>>,
      <<\HA610, \HA62B>>, <<\HA640, \HA66E>>, <<\HA67F, \HA69D>>, <<\HA6A0, \HA6EF>>, <<\HA717, \HA71F>>,
      <<\HA722, \HA788>>, <<\HA78B, \HA7CA>>, <<\HA7D0, \HA7D1>>, <<\HA7D3, \HA7D3>>, <<\HA7D5, \HA7D9>>,
      <<\HA7F2, \HA801>>, <<\HA803, \HA805>>, <<\HA807, \HA80A>>, <<\HA80C, \HA822>>, <<\HA830, \HA835>>,
      <<\HA840, \HA873>>, <<\HA882, \HA8B3>>, <<\HA8D0, \HA8D9>>, <<\HA8F2, \HA8F7>>, <<\HA8FB, \HA8FB>>,
      <<\HA8FD, \HA8FE>>, <<\HA900, \HA925>>, <<\HA930, \HA946>>, <<\HA960, \HA97C>>, <<\HA984, \HA9B2>>,
      <<\HA9CF, \HA9D9>>, <<\HA9E0, \HA9E4>>, <<\HA9E6, \HA9FE>>, <<\HAA00, \HAA28>>, <<\HAA40, \HAA42>>,
      <<\HAA44, \HAA4B>>, <<\HAA50, \HAA59>>, <<\HAA60, \HAA76>>, <<\HAA7A, \HAA7A>>, <<\HAA7E, \HAAAF>>,
      <<\HAAB1, \HAAB1>>, <<\HAAB5, \HAAB6>>, <<\HAAB9, \HAABD>>, <<\HAAC0, \HAAC0>>, <<\HAAC2, \HAAC2>>,
      <<\HAADB, \HAADD>>, <<\HAAE0, \HAAEA>>, <<\HAAF2, \HAAF4>>, <<\HAB01, \HAB06>>, <<\HAB09, \HAB0E>>,
      <<\HAB11, \HAB16>>, <<\HAB20, \HAB26>>, <<\HAB28, \HAB2E>>, <<\HAB30, \HAB5A>>, <<\HAB5C, \HAB69>>,
      <<\HAB70, \HABE2>>, <<\HABF0, \HABF9>>, <<\HAC00, \HD7A3>>, <<\HD7B0, \HD7C6>>, <<\HD7CB, \HD7FB>>,
      <<\HF900, \HFA6D>>, <<\HFA70, \HFAD9>>, <<\HFB00, \HFB06>>, <<\HFB13, \HFB17>>, <<\HFB1D, \HFB1D>>,
      <<\HFB1F, \HFB28>>, <<\HFB2A, \HFB36>>, <<\HFB38, \HFB3C>>, <<\HFB3E, \HFB3E>>, <<\HFB40, \HFB41>>,
      <<\HFB43, \HFB44>>, <<\HFB46, \HFBB1>>, <<\HFBD3, \HFD3D>>, <<\HFD50, \HFD8F>>, <<\HFD92, \HFDC7>>,
      <<\HFDF0, \HFDFB>>, <<\HFE70, \HFE74>>, <<\HFE76, \HFEFC>>, <<\HFF10, \HFF19>>, <<\HFF21, \HFF3A>>,
      <<\HFF41, \HFF5A>>, <<\HFF66, \HFFBE>>, <<\HFFC2, \HFFC7>>, <<\HFFCA, \HFFCF>>, <<\HFFD2, \HFFD7>>,
      <<\HFFDA, \HFFDC>>, <<\H10000, \H1000B>>, <<\H1000D, \H10026>>, <<\H10028, \H1003A>>, <<\H1003C, \H1003D>>,
      <<\H1003F, \H1004D>>, <<\H10050, \H1005D>>, <<\H10080, \H100FA>>, <<\H10107, \H10133>>, <<\H10140, \H10178>>,
      <<\H1018A, \H1018B>>, <<\H10280, \H1029C>>, <<\H102A0, \H102D0>>, <<\H102E1, \H102FB>>, <<\H10300, \H10323>>,
      <<\H1032D, \H1034A>>, <<\H10350, \H10375>>, <<\H10380, \H1039D>>, <<\H103A0, \H103C3>>, <<\H103C8, \H103CF>>,
      <<\H103D1, \H103D5>>, <<\H10400, \H1049D>>, <<\H104A0, \H104A9>>, <<\H104B0, \H104D3>>, <<\H104D8, \H104FB>>,
      <<\H10500, \H10527>>, <<\H10530, \H10563>>, <<\H10570, \H1057A>>, <<\H1057C, \H1058A>>, <<\H1058C, \H10592>>,
      <<\H10594, \H10595>>, <<\H10597, \H105A1>>, <<\H105A3, \H105B1>>, <<\H105B3, \H105B9>>, <<\H105BB, \H105BC>>,
      <<\H10600, \H10736>>, <<\H10740, \H10755>>, <<\H10760, \H10767>>, <<\H10780, \H10785>>, <<\H10787, \H107B0>>,
      <<\H107B2, \H107BA>>, <<\H10800, \H10805>>, <<\H10808, \H10808>>, <<\H1080A, \H10835>>, <<\H10837, \H10838>>,
      <<\H1083C, \H1083C>>, <<\H1083F, \H10855>>, <<\H10858, \H10876>>, <<\H10879, \H1089E>>, <<\H108A7, \H108AF>>,
      <<\H108E0, \H108F2>>, <<\H108F4, \H108F5>>, <<\H108FB, \H1091B>>, <<\H10920, \H10939>>, <<\H10980, \H109B7>>,
      <<\H109BC, \H109CF>>, <<\H109D2, \H10A00>>, <<\H10A10, \H10A13>>, <<\H10A15, \H10A17>>, <<\H10A19, \H10A35>>,
      <<\H10A40, \H10A48>>, <<\H10A60, \H10A7E>>, <<\H10A80, \H10A9F>>, <<\H10AC0, \H10AC7>>, <<\H10AC9, \H10AE4>>,
      <<\H10AEB, \H10AEF>>, <<\H10B00, \H10B35>>, <<\H10B40, \H10B55>>, <<\H10B58, \H10B72>>, <<\H10B78, \H10B91>>,
      <<\H10BA9, \H10BAF>>, <<\H10C00, \H10C48>>, <<\H10C80, \H10CB2>>, <<\H10CC0, \H10CF2>>, <<\H10CFA, \H10D23>>,
      <<\H10D30, \H10D39>>, <<\H10E60, \H10E7E>>, <<\H10E80, \H10EA9>>, <<\H10EB0, \H10EB1>>, <<\H10F00, \H10F27>>,
      <<\H10F30, \H10F45>>, <<\H10F51, \H10F54>>, <<\H10F70, \H10F81>>, <<\H10FB0, \H10FCB>>, <<\H10FE0, \H10FF6>>,
      <<\H11003, \H11037>>, <<\H11052, \H1106F>>, <<\H11071, \H11072>>, <<\H11075, \H11075>>, <<\H11083, \H110AF>>,
      <<\H110D0, \H110E8>>, <<\H110F0, \H110F9>>, <<\H11103, \H11126>>, <<\H11136, \H1113F>>, <<\H11144, \H11144>>,
      <<\H11147, \H11147>>, <<\H11150, \H11172>>, <<\H11176, \H11176>>, <<\H11183, \H111B2>>, <<\H111C1, \H111C4>>,
      <<\H111D0, \H111DA>>, <<\H111DC, \H111DC>>, <<\H111E1, \H111F4>>, <<\H11200, \H11211>>, <<\H11213, \H1122B>>,
      <<\H11280, \H11286>>, <<\H11288, \H11288>>, <<\H1128A, \H1128D>>, <<\H1128F, \H1129D>>, <<\H1129F, \H112A8>>,
      <<\H112B0, \H112DE>>, <<\H112F0, \H112F9>>, <<\H11305, \H1130C>>, <<\H1130F, \H11310>>, <<\H11313, \H11328>>,
      <<\H1132A, \H11330>>, <<\H11332, \H11333>>, <<\H11335, \H11339>>, <<\H1133D, \H1133D>>, <<\H11350, \H11350>>,
      <<\H1135D, \H11361>>, <<\H11400, \H11434>>, <<\H11447, \H1144A>>, <<\H11450, \H11459>>, <<\H1145F, \H11461>>,
      <<\H11480, \H114AF>>, <<\H114C4, \H114C5>>, <<\H114C7, \H114C7>>, <<\H114D0, \H114D9>>, <<\H11580, \H115AE>>,
      <<\H115D8, \H115DB>>, <<\H11600, \H1162F>>, <<\H11644, \H11644>>, <<\H11650, \H11659>>, <<\H11680, \H116AA>>,
      <<\H116B8, \H116B8>>, <<\H116C0, \H116C9>>, <<\H11700, \H1171A>>, <<\H11730, \H1173B>>, <<\H11740, \H11746>>,
      <<\H11800, \H1182B>>, <<\H118A0, \H118F2>>, <<\H118FF, \H11906>>, <<\H11909, \H11909>>, <<\H1190C, \H11913>>,
      <<\H11915, \H11916>>, <<\H11918, \H1192F>>, <<\H1193F, \H1193F>>, <<\H11941, \H11941>>, <<\H11950, \H11959>>,
      <<\H119A0, \H119A7>>, <<\H119AA, \H119D0>>, <<\H119E1, \H119E1>>, <<\H119E3, \H119E3>>, <<\H11A00, \H11A00>>,
      <<\H11A0B, \H11A32>>, <<\H11A3A, \H11A3A>>, <<\H11A50, \H11A50>>, <<\H11A5C, \H11A89>>, <<\H11A9D, \H11A9D>>,
      <<\H11AB0, \H11AF8>>, <<\H11C00, \H11C08>>, <<\H11C0A, \H11C2E>>, <<\H11C40, \H11C40>>, <<\H11C50, \H11C6C>>,
      <<\H11C72, \H11C8F>>, <<\H11D00, \H11D06>>, <<\H11D08, \H11D09>>, <<\H11D0B, \H11D30>>, <<\H11D46, \H11D46>>,
      <<\H11D50, \H11D59>>, <<\H11D60, \H11D65>>, <<\H11D67, \H11D68>>, <<\H11D6A, \H11D89>>, <<\H11D98, \H11D98>>,
      <<\H11DA0, \H11DA9>>, <<\H11EE0, \H11EF2>>, <<\H11FB0, \H11FB0>>, <<\H11FC0, \H11FD4>>, <<\H12000, \H12399>>,
      <<\H12400, \H1246E>>, <<\H12480, \H12543>>, <<\H12F90, \H12FF0>>, <<\H13000, \H1342E>>, <<\H14400, \H14646>>,
      <<\H16800, \H16A38>>, <<\H16A40, \H16A5E>>, <<\H16A60, \H16A69>>, <<\H16A70, \H16ABE>>, <<\H16AC0, \H16AC9>>,
      <<\H16AD0, \H16AED>>, <<\H16B00, \H16B2F>>, <<\H16B40, \H16B43>>, <<\H16B50, \H16B59>>, <<\H16B5B, \H16B61>>,
      <<\H16B63, \H16B77>>, <<\H16B7D, \H16B8F>>, <<\H16E40, \H16E96>>, <<\H16F00, \H16F4A>>, <<\H16F50, \H16F50>>,
      <<\H16F93, \H16F9F>>, <<\H16FE0, \H16FE1>>, <<\H16FE3, \H16FE3>>, <<\H17000, \H187F7>>, <<\H18800, \H18CD5>>,
      <<\H18D00, \H18D08>>, <<\H1AFF0, \H1AFF3>>, <<\H1AFF5, \H1AFFB>>, <<\H1AFFD, \H1AFFE>>, <<\H1B000, \H1B122>>,
      <<\H1B150, \H1B152>>, <<\H1B164, \H1B167>>, <<\H1B170, \H1B2FB>>, <<\H1BC00, \H1BC6A>>, <<\H1BC70, \H1BC7C>>,
      <<\H1BC80, \H1BC88>>, <<\H1BC90, \H1BC99>>, <<\H1D2E0, \H1D2F3>>, <<\H1D360, \H1D378>>, <<\H1D400, \H1D454>>,
      <<\H1D456, \H1D49C>>, <<\H1D49E, \H1D49F>>, <<\H1D4A2, \H1D4A2>>, <<\H1D4A5, \H1D4A6>>, <<\H1D4A9, \H1D4AC>>,
      <<\H1D4AE, \H1D4B9>>, <<\H1D4BB, \H1D4BB>>, <<\H1D4BD, \H1D4C3>>, <<\H1D4C5, \H1D505>>, <<\H1D507, \H1D50A>>,
      <<\H1D50D, \H1D514>>, <<\H1D516, \H1D51C>>, <<\H1D51E, \H1D539>>, <<\H1D53B, \H1D53E>>, <<\H1D540, \H1D544>>,
      <<\H1D546, \H1D546>>, <<\H1D54A, \H1D550>>, <<\H1D552, \H1D6A5>>, <<\H1D6A8, \H1D6C0>>, <<\H1D6C2, \H1D6DA>>,
      <<\H1D6DC, \H1D6FA>>, <<\H1D6FC, \H1D714>>, <<\H1D716, \H1D734>>, <<\H1D736, \H1D74E>>, <<\H1D750, \H1D76E>>,
      <<\H1D770, \H1D788>>, <<\H1D78A, \H1D7A8>>, <<\H1D7AA, \H1D7C2>>, <<\H1D7C4, \H1D7CB>>, <<\H1D7CE, \H1D7FF>>,
      <<\H1DF00, \H1DF1E>>, <<\H1E100, \H1E12C>>, <<\H1E137, \H1E13D>>, <<\H1E140, \H1E149>>, <<\H1E14E, \H1E14E>>,
      <<\H1E290, \H1E2AD>>, <<\H1E2C0, \H1E2EB>>, <<\H1E2F0, \H1E2F9>>, <<\H1E7E0, \H1E7E6>>, <<\H1E7E8, \H1E7EB>>,
      <<\H1E7ED, \H1E7EE>>, <<\H1E7F0, \H1E7FE>>, <<\H1E800, \H1E8C4>>, <<\H1E8C7, \H1E8CF>>, <<\H1E900, \H1E943>>,
      <<\H1E94B, \H1E94B>>, <<\H1E950, \H1E959>>, <<\H1EC71, \H1ECAB>>, <<\H1ECAD, \H1ECAF>>, <<\H1ECB1, \H1ECB4>>,
      <<\H1ED01, \H1ED2D>>, <<\H1ED2F, \H1ED3D>>, <<\H1EE00, \H1EE03>>, <<\H1EE05, \H1EE1F>>, <<\H1EE21, \H1EE22>>,
      <<\H1EE24, \H1EE24>>, <<\H1EE27, \H1EE27>>, <<\H1EE29, \H1EE32>>, <<\H1EE34, \H1EE37>>, <<\H1EE39, \H1EE39>>,
      <<\H1EE3B, \H1EE3B>>, <<\H1EE42, \H1EE42>>, <<\H1EE47, \H1EE47>>, <<\H1EE49, \H1EE49>>, <<\H1EE4B, \H1EE4B>>,
      <<\H1EE4D, \H1EE4F>>, <<\H1EE51, \H1EE52>>, <<\H1EE54, \H1EE54>>, <<\H1EE57, \H1EE57>>, <<\H1EE59, \H1EE59>>,
      <<\H1EE5B, \H1EE5B>>, <<\H1EE5D, \H1EE5D>>, <<\H1EE5F, \H1EE5F>>, <<\H1EE61, \H1EE62>>, <<\H1EE64, \H1EE64>>,
      <<\H1EE67, \H1EE6A>>, <<\H1EE6C, \H1EE72>>, <<\H1EE74, \H1EE77>>, <<\H1EE79, \H1EE7C>>, <<\H1EE7E, \H1EE7E>>,
      <<\H1EE80, \H1EE89>>, <<\H1EE8B, \H1EE9B>>, <<\H1EEA1, \H1EEA3>>, <<\H1EEA5, \H1EEA9>>, <<\H1EEAB, \H1EEBB>>,
      <<\H1F100, \H1F10C>>, <<\H1FBF0, \H1FBF9>>, <<\H20000, \H2A6DF>>, <<\H2A700, \H2B738>>, <<\H2B740, \H2B81D>>,
      <<\H2B820, \H2CEA1>>, <<\H2CEB0, \H2EBE0>>, <<\H2F800, \H2FA1D>>, <<\H30000, \H3134A>>>>

\* the simple lower-case mappings: <<first, last, step, delta>> stands for
\* the code points first, first + step, .., last, and str.lower() takes the
\* character of each to the character of the code point delta further on
LowerRuns ==
    <<<<\H0041, \H005A, 1, 32>>, <<\H00C0, \H00D6, 1, 32>>, <<\H00D8, \H00DE, 1, 32>>,
      <<\H0100, \H012E, 2, 1>>, <<\H0132, \H0136, 2, 1>>, <<\H0139, \H0147, 2, 1>>,
      <<\H014A, \H0176, 2, 1>>, <<\H0178, \H0178, 1, -121>>, <<\H0179, \H017D, 2, 1>>,
      <<\H0181, \H0181, 1, 210>>, <<\H0182, \H0184, 2, 1>>, <<\H0186, \H0186, 1, 206>>,
      <<\H0187, \H0187, 1, 1>>, <<\H0189, \H018A, 1, 205>>, <<\H018B, \H018B, 1, 1>>,
      <<\H018E, \H018E, 1, 79>>, <<\H018F, \H018F, 1, 202>>, <<\H0190, \H0190, 1, 203>>,
      <<\H0191, \H0191, 1, 1>>, <<\H0193, \H0193, 1, 205>>, <<\H0194, \H0194, 1, 207>>,
      <<\H0196, \H0196, 1, 211>>, <<\H0197, \H0197, 1, 209>>, <<\H0198, \H0198, 1, 1>>,
      <<\H019C, \H019C, 1, 211>>, <<\H019D, \H019D, 1, 213>>, <<\H019F, \H019F, 1, 214>>,
      <<\H01A0, \H01A4, 2, 1>>, <<\H01A6, \H01A6, 1, 218>>, <<\H01A7, \H01A7, 1, 1>>,
      <<\H01A9, \H01A9, 1, 218>>, <<\H01AC, \H01AC, 1, 1>>, <<\H01AE, \H01AE, 1, 218>>,
      <<\H01AF, \H01AF, 1, 1>>, <<\H01B1, \H01B2, 1, 217>>, <<\H01B3, \H01B5, 2, 1>>,
      <<\H01B7, \H01B7, 1, 219>>, <<\H01B8, \H01B8, 1, 1>>, <<\H01BC, \H01BC, 1, 1>>,
      <<\H01C4, \H01C4, 1, 2>>, <<\H01C5, \H01C5, 1, 1>>, <<\H01C7, \H01C7, 1, 2>>,
      <<\H01C8, \H01C8, 1, 1>>, <<\H01CA, \H01CA, 1, 2>>, <<\H01CB, \H01DB, 2, 1>>,
      <<\H01DE, \H01EE, 2, 1>>, <<\H01F1, \H01F1, 1, 2>>, <<\H01F2, \H01F4, 2, 1>>,
      <<\H01F6, \H01F6, 1, -97>>, <<\H01F7, \H01F7, 1, -56>>, <<\H01F8, \H021E, 2, 1>>,
      <<\H0220, \H0220, 1, -130>>, <<\H0222, \H0232, 2, 1>>, <<\H023A, \H023A, 1, 10795>>,
      <<\H023B, \H023B, 1, 1>>, <<\H023D, \H023D, 1, -163>>, <<\H023E, \H023E, 1, 10792>>,
      <<\H0241, \H0241, 1, 1>>, <<\H0243, \H0243, 1, -195>>, <<\H0244, \H0244, 1, 69>>,
      <<\H0245, \H0245, 1, 71>>, <<\H0246, \H024E, 2, 1>>, <<\H0370, \H0372, 2, 1>>,
      <<\H0376, \H0376, 1, 1>>, <<\H037F, \H037F, 1, 116>>, <<\H0386, \H0386, 1, 38>>,
      <<\H0388, \H038A, 1, 37>>, <<\H038C, \H038C, 1, 64>>, <<\H038E, \H038F, 1, 63>>,
      <<\H0391, \H03A1, 1, 32>>, <<\H03A3, \H03AB, 1, 32>>, <<\H03CF, \H03CF, 1, 8>>,
      <<\H03D8, \H03EE, 2, 1>>, <<\H03F4, \H03F4, 1, -60>>, <<\H03F7, \H03F7, 1, 1>>,
      <<\H03F9, \H03F9, 1, -7>>, <<\H03FA, \H03FA, 1, 1>>, <<\H03FD, \H03FF, 1, -130>>,
      <<\H0400, \H040F, 1, 80>>, <<\H0410, \H042F, 1, 32>>, <<\H0460, \H0480, 2, 1>>,
      <<\H048A, \H04BE, 2, 1>>, <<\H04C0, \H04C0, 1, 15>>, <<\H04C1, \H04CD, 2, 1>>,
      <<\H04D0, \H052E, 2, 1>>, <<\H0531, \H0556, 1, 48>>, <<\H10A0, \H10C5, 1, 7264>>,
      <<\H10C7, \H10C7, 1, 7264>>, <<\H10CD, \H10CD, 1, 7264>>, <<\H13A0, \H13EF, 1, 38864>>,
      <<\H13F0, \H13F5, 1, 8>>, <<\H1C90, \H1CBA, 1, -3008>>, <<\H1CBD, \H1CBF, 1, -3008>>,
      <<\H1E00, \H1E94, 2, 1>>, <<\H1E9E, \H1E9E, 1, -7615>>, <<\H1EA0, \H1EFE, 2, 1>>,
      <<\H1F08, \H1F0F, 1, -8>>, <<\H1F18, \H1F1D, 1, -8>>, <<\H1F28, \H1F2F, 1, -8>>,
      <<\H1F38, \H1F3F, 1, -8>>, <<\H1F48, \H1F4D, 1, -8>>, <<\H1F59, \H1F5F, 2, -8>>,
      <<\H1F68, \H1F6F, 1, -8>>, <<\H1F88, \H1F8F, 1, -8>>, <<\H1F98, \H1F9F, 1, -8>>,
      <<\H1FA8, \H1FAF, 1, -8>>, <<\H1FB8, \H1FB9, 1, -8>>, <<\H1FBA, \H1FBB, 1, -74>>,
      <<\H1FBC, \H1FBC, 1, -9>>, <<\H1FC8, \H1FCB, 1, -86>>, <<\H1FCC, \H1FCC, 1, -9>>,
      <<\H1FD8, \H1FD9, 1, -8>>, <<\H1FDA, \H1FDB, 1, -100>>, <<\H1FE8, \H1FE9, 1, -8>>,
      <<\H1FEA, \H1FEB, 1, -112>>, <<\H1FEC, \H1FEC, 1, -7>>, <<\H1FF8, \H1FF9, 1, -128>>,
      <<\H1FFA, \H1FFB, 1, -126>>, <<\H1FFC, \H1FFC, 1, -9>>, <<\H2126, \H2126, 1, -7517>>,
      <<\H212A, \H212A, 1, -8383>>, <<\H212B, \H212B, 1, -8262>>, <<\H2132, \H2132, 1, 28>>,
      <<\H2160, \H216F, 1, 16>>, <<\H2183, \H2183, 1, 1>>, <<\H24B6, \H24CF, 1, 26>>,
      <<\H2C00, \H2C2F, 1, 48>>, <<\H2C60, \H2C60, 1, 1>>, <<\H2C62, \H2C62, 1, -10743>>,
      <<\H2C63, \H2C63, 1, -3814>>, <<\H2C64, \H2C64, 1, -10727>>, <<\H2C67, \H2C6B, 2, 1>>,
      <<\H2C6D, \H2C6D, 1, -10780>>, <<\H2C6E, \H2C6E, 1, -10749>>, <<\H2C6F, \H2C6F, 1, -10783>>,
      <<\H2C70, \H2C70, 1, -10782>>, <<\H2C72, \H2C72, 1, 1>>, <<\H2C75, \H2C75, 1, 1>>,
      <<\H2C7E, \H2C7F, 1, -10815>>, <<\H2C80, \H2CE2, 2, 1>>, <<\H2CEB, \H2CED, 2, 1>>,
      <<\H2CF2, \H2CF2, 1, 1>>, <<\HA640, \HA66C, 2, 1>>, <<\HA680, \HA69A, 2, 1>>,
      <<\HA722, \HA72E, 2, 1>>, <<\HA732, \HA76E, 2, 1>>, <<\HA779, \HA77B, 2, 1>>,
      <<\HA77D, \HA77D, 1, -35332>>, <<\HA77E, \HA786, 2, 1>>, <<\HA78B, \HA78B, 1, 1>>,
      <<\HA78D, \HA78D, 1, -42280>>, <<\HA790, \HA792, 2, 1>>, <<\HA796, \HA7A8, 2, 1>>,
      <<\HA7AA, \HA7AA, 1, -42308>>, <<\HA7AB, \HA7AB, 1, -42319>>, <<\HA7AC, \HA7AC, 1, -42315>>,
      <<\HA7AD, \HA7AD, 1, -42305>>, <<\HA7AE, \HA7AE, 1, -42308>>, <<\HA7B0, \HA7B0, 1, -42258>>,
      <<\HA7B1, \HA7B1, 1, -42282>>, <<\HA7B2, \HA7B2, 1, -42261>>, <<\HA7B3, \HA7B3, 1, 928>>,
      <<\HA7B4, \HA7C2, 2, 1>>, <<\HA7C4, \HA7C4, 1, -48>>, <<\HA7C5, \HA7C5, 1, -42307>>,
      <<\HA7C6, \HA7C6, 1, -35384>>, <<\HA7C7, \HA7C9, 2, 1>>, <<\HA7D0, \HA7D0, 1, 1>>,
      <<\HA7D6, \HA7D8, 2, 1>>, <<\HA7F5, \HA7F5, 1, 1>>, <<\HFF21, \HFF3A, 1, 32>>,
      <<\H10400, \H10427, 1, 40>>, <<\H104B0, \H104D3, 1, 40>>, <<\H10570, \H1057A, 1, 39>>,
      <<\H1057C, \H1058A, 1, 39>>, <<\H1058C, \H10592, 1, 39>>, <<\H10594, \H10595, 1, 39>>,
      <<\H10C80, \H10CB2, 1, 64>>, <<\H118A0, \H118BF, 1, 32>>, <<\H16E40, \H16E5F, 1, 32>>,
      <<\H1E900, \H1E921, 1, 34>>>>

\* the code points of the cased characters (property Cased: the lower-case,
\* upper-case and title-case letters)
CasedRanges ==
    <<<<\H0041, \H005A>>, <<\H0061, \H007A>>, <<\H00AA, \H00AA>>, <<\H00B5, \H00B5>>, <<\H00BA, \H00BA>>,
      <<\H00C0, \H00D6>>, <<\H00D8, \H00F6>>, <<\H00F8, \H01BA>>, <<\H01BC, \H01BF>>, <<\H01C4, \H0293>>,
      <<\H0295, \H02B8>>, <<\H02C0, \H02C1>>, <<\H02E0, \H02E4>>, <<\H0345, \H0345>>, <<\H0370, \H0373>>,
      <<\H0376, \H0377>>, <<\H037A, \H037D>>, <<\H037F, \H037F>>, <<\H0386, \H0386>>, <<\H0388, \H038A>>,
      <<\H038C, \H038C>>, <<\H038E, \H03A1>>, <<\H03A3, \H03F5>>, <<\H03F7, \H0481>>, <<\H048A, \H052F>>,
      <<\H0531, \H0556>>, <<\H0560, \H0588>>, <<\H10A0, \H10C5>>, <<\H10C7, \H10C7>>, <<\H10CD, \H10CD>>,
      <<\H10D0, \H10FA>>, <<\H10FD, \H10FF>>, <<\H13A0, \H13F5>>, <<\H13F8, \H13FD>>, <<\H1C80, \H1C88>>,
      <<\H1C90, \H1CBA>>, <<\H1CBD, \H1CBF>>, <<\H1D00, \H1DBF>>, <<\H1E00, \H1F15>>, <<\H1F18, \H1F1D>>,
      <<\H1F20, \H1F45>>, <<\H1F48, \H1F4D>>, <<\H1F50, \H1F57>>, <<\H1F59, \H1F59>>, <<\H1F5B, \H1F5B>>,
      <<\H1F5D, \H1F5D>>, <<\H1F5F, \H1F7D>>, <<\H1F80, \H1FB4>>, <<\H1FB6, \H1FBC>>, <<\H1FBE, \H1FBE>>,
      <<\H1FC2, \H1FC4>>, <<\H1FC6, \H1FCC>>, <<\H1FD0, \H1FD3>>, <<\H1FD6, \H1FDB>>, <<\H1FE0, \H1FEC>>,
      <<\H1FF2, \H1FF4>>, <<\H1FF6, \H1FFC>>, <<\H2071, \H2071>>, <<\H207F, \H207F>>, <<\H2090, \H209C>>,
      <<\H2102, \H2102>>, <<\H2107, \H2107>>, <<\H210A, \H2113>>, <<\H2115, \H2115>>, <<\H2119, \H211D>>,
      <<\H2124, \H2124>>, <<\H2126, \H2126>>, <<\H2128, \H2128>>, <<\H212A, \H212D>>, <<\H212F, \H2134>>,
      <<\H2139, \H2139>>, <<\H213C, \H213F>>, <<\H2145, \H2149>>, <<\H214E, \H214E>>, <<\H2160, \H217F>>,
      <<\H2183, \H2184>>, <<\H24B6, \H24E9>>, <<\H2C00, \H2CE4>>, <<\H2CEB, \H2CEE>>, <<\H2CF2, \H2CF3>>,
      <<\H2D00, \H2D25>>, <<\H2D27, \H2D27>>, <<\H2D2D, \H2D2D>>, <<\HA640, \HA66D>>, <<\HA680, \HA69D>>,
      <<\HA722, \HA787>>, <<\HA78B, \HA78E>>, <<\HA790, \HA7CA>>, <<\HA7D0, \HA7D1>>, <<\HA7D3, \HA7D3>>,
      <<\HA7D5, \HA7D9>>, <<\HA7F5, \HA7F6>>, <<\HA7F8, \HA7FA>>, <<\HAB30, \HAB5A>>, <<\HAB5C, \HAB68>>,
      <<\HAB70, \HABBF>>, <<\HFB00, \HFB06>>, <<\HFB13, \HFB17>>, <<\HFF21, \HFF3A>>, <<\HFF41, \HFF5A>>,
      <<\H10400, \H1044F>>, <<\H104B0, \H104D3>>, <<\H104D8, \H104FB>>, <<\H10570, \H1057A>>, <<\H1057C, \H1058A>>,
      <<\H1058C, \H10592>>, <<\H10594, \H10595>>, <<\H10597, \H105A1>>, <<\H105A3, \H105B1>>, <<\H105B3, \H105B9>>,
      <<\H105BB, \H105BC>>, <<\H10780, \H10780>>, <<\H10783, \H10785>>, <<\H10787, \H107B0>>, <<\H107B2, \H107BA>>,
      <<\H10C80, \H10CB2>>, <<\H10CC0, \H10CF2>>, <<\H118A0, \H118DF>>, <<\H16E40, \H16E7F>>, <<\H1D400, \H1D454>>,
      <<\H1D456, \H1D49C>>, <<\H1D49E, \H1D49F>>, <<\H1D4A2, \H1D4A2>>, <<\H1D4A5, \H1D4A6>>, <<\H1D4A9, \H1D4AC>>,
      <<\H1D4AE, \H1D4B9>>, <<\H1D4BB, \H1D4BB>>, <<\H1D4BD, \H1D4C3>>, <<\H1D4C5, \H1D505>>, <<\H1D507, \H1D50A>>,
      <<\H1D50D, \H1D514>>, <<\H1D516, \H1D51C>>, <<\H1D51E, \H1D539>>, <<\H1D53B, \H1D53E>>, <<\H1D540, \H1D544>>,
      <<\H1D546, \H1D546>>, <<\H1D54A, \H1D550>>, <<\H1D552, \H1D6A5>>, <<\H1D6A8, \H1D6C0>>, <<\H1D6C2, \H1D6DA>>,
      <<\H1D6DC, \H1D6FA>>, <<\H1D6FC, \H1D714>>, <<\H1D716, \H1D734>>, <<\H1D736, \H1D74E>>, <<\H1D750, \H1D76E>>,
      <<\H1D770, \H1D788>>, <<\H1D78A, \H1D7A8>>, <<\H1D7AA, \H1D7C2>>, <<\H1D7C4, \H1D7CB>>, <<\H1DF00, \H1DF09>>,
      <<\H1DF0B, \H1DF1E>>, <<\H1E900, \H1E943>>, <<\H1F130, \H1F149>>, <<\H1F150, \H1F169>>, <<\H1F170, \H1F189>>>>

\* the code points of the case-ignorable characters (property Case_Ignorable:
\* marks, format characters, modifier letters and symbols, and the
\* punctuation that may stand inside a word, such as "'", "." and ":")
CaseIgnorableRanges ==
    <<<<\H0027, \H0027>>, <<\H002E, \H002E>>, <<\H003A, \H003A>>, <<\H005E, \H005E>>, <<\H0060, \H0060>>,
      <<\H00A8, \H00A8>>, <<\H00AD, \H00AD>>, <<\H00AF, \H00AF>>, <<\H00B4, \H00B4>>, <<\H00B7, \H00B8>>,
      <<\H02B0, \H036F>>, <<\H0374, \H0375>>, <<\H037A, \H037A>>, <<\H0384, \H0385>>, <<\H0387, \H0387>>,
      <<\H0483, \H0489>>, <<\H0559, \H0559>>, <<\H055F, \H055F>>, <<\H0591, \H05BD>>, <<\H05BF, \H05BF>>,
      <<\H05C1, \H05C2>>, <<\H05C4, \H05C5>>, <<\H05C7, \H05C7>>, <<\H05F4, \H05F4>>, <<\H0600, \H0605>>,
      <<\H0610, \H061A>>, <<\H061C, \H061C>>, <<\H0640, \H0640>>, <<\H064B, \H065F>>, <<\H0670, \H0670>>,
      <<\H06D6, \H06DD>>, <<\H06DF, \H06E8>>, <<\H06EA, \H06ED>>, <<\H070F, \H070F>>, <<\H0711, \H0711>>,
      <<\H0730, \H074A>>, <<\H07A6, \H07B0>>, <<\H07EB, \H07F5>>, <<\H07FA, \H07FA>>, <<\H07FD, \H07FD>>,
      <<\H0816, \H082D>>, <<\H0859, \H085B>>, <<\H0888, \H0888>>, <<\H0890, \H0891>>, <<\H0898, \H089F>>,
      <<\H08C9, \H0902>>, <<\H093A, \H093A>>, <<\H093C, \H093C>>, <<\H0941, \H0948>>, <<\H094D, \H094D>>,
      <<\H0951, \H0957>>, <<\H0962, \H0963>>, <<\H0971, \H0971>>, <<\H0981, \H0981>>, <<\H09BC, \H09BC>>,
      <<\H09C1, \H09C4>>, <<\H09CD, \H09CD>>, <<\H09E2, \H09E3>>, <<\H09FE, \H09FE>>, <<\H0A01, \H0A02>>,
      <<\H0A3C, \H0A3C>>, <<\H0A41, \H0A42>>, <<\H0A47, \H0A48>>, <<\H0A4B, \H0A4D>>, <<\H0A51, \H0A51>>,
      <<\H0A70, \H0A71>>, <<\H0A75, \H0A75>>, <<\H0A81, \H0A82>>, <<\H0ABC, \H0ABC>>, <<\H0AC1, \H0AC5>>,
      <<\H0AC7, \H0AC8>>, <<\H0ACD, \H0ACD>>, <<\H0AE2, \H0AE3>>, <<\H0AFA, \H0AFF>>, <<\H0B01, \H0B01>>,
      <<\H0B3C, \H0B3C>>, <<\H0B3F, \H0B3F>>, <<\H0B41, \H0B44>>, <<\H0B4D, \H0B4D>>, <<\H0B55, \H0B56>>,
      <<\H0B62, \H0B63>>, <<\H0B82, \H0B82>>, <<\H0BC0, \H0BC0>>, <<\H0BCD, \H0BCD>>, <<\H0C00, \H0C00>>,
      <<\H0C04, \H0C04>>, <<\H0C3C, \H0C3C>>, <<\H0C3E, \H0C40>>, <<\H0C46, \H0C48>>, <<\H0C4A, \H0C4D>>,
      <<\H0C55, \H0C56>>, <<\H0C62, \H0C63>>, <<\H0C81, \H0C81>>, <<\H0CBC, \H0CBC>>, <<\H0CBF, \H0CBF>>,
      <<\H0CC6, \H0CC6>>, <<\H0CCC, \H0CCD>>, <<\H0CE2, \H0CE3>>, <<\H0D00, \H0D01>>, <<\H0D3B, \H0D3C>>,
      <<\H0D41, \H0D44>>, <<\H0D4D, \H0D4D>>, <<\H0D62, \H0D63>>, <<\H0D81, \H0D81>>, <<\H0DCA, \H0DCA>>,
      <<\H0DD2, \H0DD4>>, <<\H0DD6, \H0DD6>>, <<\H0E31, \H0E31>>, <<\H0E34, \H0E3A>>, <<\H0E46, \H0E4E>>,
      <<\H0EB1, \H0EB1>>, <<\H0EB4, \H0EBC>>, <<\H0EC6, \H0EC6>>, <<\H0EC8, \H0ECD>>, <<\H0F18, \H0F19>>,
      <<\H0F35, \H0F35>>, <<\H0F37, \H0F37>>, <<\H0F39, \H0F39>>, <<\H0F71, \H0F7E>>, <<\H0F80, \H0F84>>,
      <<\H0F86, \H0F87>>, <<\H0F8D, \H0F97>>, <<\H0F99, \H0FBC>>, <<\H0FC6, \H0FC6>>, <<\H102D, \H1030>>,
      <<\H1032, \H1037>>, <<\H1039, \H103A>>, <<\H103D, \H103E>>, <<\H1058, \H1059>>, <<\H105E, \H1060>>,
      <<\H1071, \H1074>>, <<\H1082, \H1082>>, <<\H1085, \H1086>>, <<\H108D, \H108D>>, <<\H109D, \H109D>>,
      <<\H10FC, \H10FC>>, <<\H135D, \H135F>>, <<\H1712, \H1714>>, <<\H1732, \H1733>>, <<\H1752, \H1753>>,
      <<\H1772, \H1773>>, <<\H17B4, \H17B5>>, <<\H17B7, \H17BD>>, <<\H17C6, \H17C6>>, <<\H17C9, \H17D3>>,
      <<\H17D7, \H17D7>>, <<\H17DD, \H17DD>>, <<\H180B, \H180F>>, <<\H1843, \H1843>>, <<\H1885, \H1886>>,
      <<\H18A9, \H18A9>>, <<\H1920, \H1922>>, <<\H1927, \H1928>>, <<\H1932, \H1932>>, <<\H1939, \H193B>>,
      <<\H1A17, \H1A18>>, <<\H1A1B, \H1A1B>>, <<\H1A56, \H1A56>>, <<\H1A58, \H1A5E>>, <<\H1A60, \H1A60>>,
      <<\H1A62, \H1A62>>, <<\H1A65, \H1A6C>>, <<\H1A73, \H1A7C>>, <<\H1A7F, \H1A7F>>, <<\H1AA7, \H1AA7>>,
      <<\H1AB0, \H1ACE>>, <<\H1B00, \H1B03>>, <<\H1B34, \H1B34>>, <<\H1B36, \H1B3A>>, <<\H1B3C, \H1B3C>>,
      <<\H1B42, \H1B42>>, <<\H1B6B, \H1B73>>, <<\H1B80, \H1B81>>, <<\H1BA2, \H1BA5>>, <<\H1BA8, \H1BA9>>,
      <<\H1BAB, \H1BAD>>, <<\H1BE6, \H1BE6>>, <<\H1BE8, \H1BE9>>, <<\H1BED, \H1BED>>, <<\H1BEF, \H1BF1>>,
      <<\H1C2C, \H1C33>>, <<\H1C36, \H1C37>>, <<\H1C78, \H1C7D>>, <<\H1CD0, \H1CD2>>, <<\H1CD4, \H1CE0>>,
      <<\H1CE2, \H1CE8>>, <<\H1CED, \H1CED>>, <<\H1CF4, \H1CF4>>, <<\H1CF8, \H1CF9>>, <<\H1D2C, \H1D6A>>,
      <<\H1D78, \H1D78>>, <<\H1D9B, \H1DFF>>, <<\H1FBD, \H1FBD>>, <<\H1FBF, \H1FC1>>, <<\H1FCD, \H1FCF>>,
      <<\H1FDD, \H1FDF>>, <<\H1FED, \H1FEF>>, <<\H1FFD, \H1FFE>>, <<\H200B, \H200F>>, <<\H2018, \H2019>>,
      <<\H2024, \H2024>>, <<\H2027, \H2027>>, <<\H202A, \H202E>>, <<\H2060, \H2064>>, <<\H2066, \H206F>>,
      <<\H2071, \H2071>>, <<\H207F, \H207F>>, <<\H2090, \H209C>>, <<\H20D0, \H20F0>>, <<\H2C7C, \H2C7D>>,
      <<\H2CEF, \H2CF1>>, <<\H2D6F, \H2D6F>>, <<\H2D7F, \H2D7F>>, <<\H2DE0, \H2DFF>>, <<\H2E2F, \H2E2F>>,
      <<\H3005, \H3005>>, <<\H302A, \H302D>>, <<\H3031, \H3035>>, <<\H303B, \H303B>>, <<\H3099, \H309E>>,
      <<\H30FC, \H30FE>>, <<\HA015, \HA015>>, <<\HA4F8, \HA4FD>>, <<\HA60C, \HA60C>>, <<\HA66F, \HA672>>,
      <<\HA674, \HA67D>>, <<\HA67F, \HA67F>>, <<\HA69C, \HA69F>>, <<\HA6F0, \HA6F1>>, <<\HA700, \HA721>>,
      <<\HA770, \HA770>>, <<\HA788, \HA78A>>, <<\HA7F2, \HA7F4>>, <<\HA7F8, \HA7F9>>, <<\HA802, \HA802>>,
      <<\HA806, \HA806>>, <<\HA80B, \HA80B>>, <<\HA825, \HA826>>, <<\HA82C, \HA82C>>, <<\HA8C4, \HA8C5>>,
      <<\HA8E0, \HA8F1>>, <<\HA8FF, \HA8FF>>, <<\HA926, \HA92D>>, <<\HA947, \HA951>>, <<\HA980, \HA982>>,
      <<\HA9B3, \HA9B3>>, <<\HA9B6, \HA9B9>>, <<\HA9BC, \HA9BD>>, <<\HA9CF, \HA9CF>>, <<\HA9E5, \HA9E6>>,
      <<\HAA29, \HAA2E>>, <<\HAA31, \HAA32>>, <<\HAA35, \HAA36>>, <<\HAA43, \HAA43>>, <<\HAA4C, \HAA4C>>,
      <<\HAA70, \HAA70>>, <<\HAA7C, \HAA7C>>, <<\HAAB0, \HAAB0>>, <<\HAAB2, \HAAB4>>, <<\HAAB7, \HAAB8>>,
      <<\HAABE, \HAABF>>, <<\HAAC1, \HAAC1>>, <<\HAADD, \HAADD>>, <<\HAAEC, \HAAED>>, <<\HAAF3, \HAAF4>>,
      <<\HAAF6, \HAAF6>>, <<\HAB5B, \HAB5F>>, <<\HAB69, \HAB6B>>, <<\HABE5, \HABE5>>, <<\HABE8, \HABE8>>,
      <<\HABED, \HABED>>, <<\HFB1E, \HFB1E>>, <<\HFBB2, \HFBC2>>, <<\HFE00, \HFE0F>>, <<\HFE13, \HFE13>>,
      <<\HFE20, \HFE2F>>, <<\HFE52, \HFE52>>, <<\HFE55, \HFE55>>, <<\HFEFF, \HFEFF>>, <<\HFF07, \HFF07>>,
      <<\HFF0E, \HFF0E>>, <<\HFF1A, \HFF1A>>, <<\HFF3E, \HFF3E>>, <<\HFF40, \HFF40>>, <<\HFF70, \HFF70>>,
      <<\HFF9E, \HFF9F>>, <<\HFFE3, \HFFE3>>, <<\HFFF9, \HFFFB>>, <<\H101FD, \H101FD>>, <<\H102E0, \H102E0>>,
      <<\H10376, \H1037A>>, <<\H10780, \H10785>>, <<\H10787, \H107B0>>, <<\H107B2, \H107BA>>, <<\H10A01, \H10A03>>,
      <<\H10A05, \H10A06>>, <<\H10A0C, \H10A0F>>, <<\H10A38, \H10A3A>>, <<\H10A3F, \H10A3F>>, <<\H10AE5, \H10AE6>>,
      <<\H10D24, \H10D27>>, <<\H10EAB, \H10EAC>>, <<\H10F46, \H10F50>>, <<\H10F82, \H10F85>>, <<\H11001, \H11001>>,
      <<\H11038, \H11046>>, <<\H11070, \H11070>>, <<\H11073, \H11074>>, <<\H1107F, \H11081>>, <<\H110B3, \H110B6>>,
      <<\H110B9, \H110BA>>, <<\H110BD, \H110BD>>, <<\H110C2, \H110C2>>, <<\H110CD, \H110CD>>, <<\H11100, \H11102>>,
      <<\H11127, \H1112B>>, <<\H1112D, \H11134>>, <<\H11173, \H11173>>, <<\H11180, \H11181>>, <<\H111B6, \H111BE>>,
      <<\H111C9, \H111CC>>, <<\H111CF, \H111CF>>, <<\H1122F, \H11231>>, <<\H11234, \H11234>>, <<\H11236, \H11237>>,
      <<\H1123E, \H1123E>>, <<\H112DF, \H112DF>>, <<\H112E3, \H112EA>>, <<\H11300, \H11301>>, <<\H1133B, \H1133C>>,
      <<\H11340, \H11340>>, <<\H11366, \H1136C>>, <<\H11370, \H11374>>, <<\H11438, \H1143F>>, <<\H11442, \H11444>>,
      <<\H11446, \H11446>>, <<\H1145E, \H1145E>>, <<\H114B3, \H114B8>>, <<\H114BA, \H114BA>>, <<\H114BF, \H114C0>>,
      <<\H114C2, \H114C3>>, <<\H115B2, \H115B5>>, <<\H115BC, \H115BD>>, <<\H115BF, \H115C0>>, <<\H115DC, \H115DD>>,
      <<\H11633, \H1163A>>, <<\H1163D, \H1163D>>, <<\H1163F, \H11640>>, <<\H116AB, \H116AB>>, <<\H116AD, \H116AD>>,
      <<\H116B0, \H116B5>>, <<\H116B7, \H116B7>>, <<\H1171D, \H1171F>>, <<\H11722, \H11725>>, <<\H11727, \H1172B>>,
      <<\H1182F, \H11837>>, <<\H11839, \H1183A>>, <<\H1193B, \H1193C>>, <<\H1193E, \H1193E>>, <<\H11943, \H11943>>,
      <<\H119D4, \H119D7>>, <<\H119DA, \H119DB>>, <<\H119E0, \H119E0>>, <<\H11A01, \H11A0A>>, <<\H11A33, \H11A38>>,
      <<\H11A3B, \H11A3E>>, <<\H11A47, \H11A47>>, <<\H11A51, \H11A56>>, <<\H11A59, \H11A5B>>, <<\H11A8A, \H11A96>>,
      <<\H11A98, \H11A99>>, <<\H11C30, \H11C36>>, <<\H11C38, \H11C3D>>, <<\H11C3F, \H11C3F>>, <<\H11C92, \H11CA7>>,
      <<\H11CAA, \H11CB0>>, <<\H11CB2, \H11CB3>>, <<\H11CB5, \H11CB6>>, <<\H11D31, \H11D36>>, <<\H11D3A, \H11D3A>>,
      <<\H11D3C, \H11D3D>>, <<\H11D3F, \H11D45>>, <<\H11D47, \H11D47>>, <<\H11D90, \H11D91>>, <<\H11D95, \H11D95>>,
      <<\H11D97, \H11D97>>, <<\H11EF3, \H11EF4>>, <<\H13430, \H13438>>, <<\H16AF0, \H16AF4>>, <<\H16B30, \H16B36>>,
      <<\H16B40, \H16B43>>, <<\H16F4F, \H16F4F>>, <<\H16F8F, \H16F9F>>, <<\H16FE0, \H16FE1>>, <<\H16FE3, \H16FE4>>,
      <<\H1AFF0, \H1AFF3>>, <<\H1AFF5, \H1AFFB>>, <<\H1AFFD, \H1AFFE>>, <<\H1BC9D, \H1BC9E>>, <<\H1BCA0, \H1BCA3>>,
      <<\H1CF00, \H1CF2D>>, <<\H1CF30, \H1CF46>>, <<\H1D167, \H1D169>>, <<\H1D173, \H1D182>>, <<\H1D185, \H1D18B>>,
      <<\H1D1AA, \H1D1AD>>, <<\H1D242, \H1D244>>, <<\H1DA00, \H1DA36>>, <<\H1DA3B, \H1DA6C>>, <<\H1DA75, \H1DA75>>,
      <<\H1DA84, \H1DA84>>, <<\H1DA9B, \H1DA9F>>, <<\H1DAA1, \H1DAAF>>, <<\H1E000, \H1E006>>, <<\H1E008, \H1E018>>,
      <<\H1E01B, \H1E021>>, <<\H1E023, \H1E024>>, <<\H1E026, \H1E02A>>, <<\H1E130, \H1E13D>>, <<\H1E2AE, \H1E2AE>>,
      <<\H1E2EC, \H1E2EF>>, <<\H1E8D0, \H1E8D6>>, <<\H1E944, \H1E94B>>, <<\H1F3FB, \H1F3FF>>, <<\HE0001, \HE0001>>,
      <<\HE0020, \HE007F>>, <<\HE0100, \HE01EF>>>>

IsCased(c) == InRanges(CodeOf(c), CasedRanges)

IsCaseIgnorable(c) == InRanges(CodeOf(c), CaseIgnorableRanges)

\* GREEK CAPITAL LETTER SIGMA and its two lower-case forms
CapitalSigma == "U+03A3"
SmallSigma == "U+03C3"
FinalSigma == "U+03C2"

\* LATIN CAPITAL LETTER I WITH DOT ABOVE, the one character whose lower-case
\* form is two characters: "i" and COMBINING DOT ABOVE
CapitalIDot == "U+0130"
CombiningDot == "U+0307"

\* the lower-case form of one character, whatever stands around it: one
\* character, or two for CapitalIDot
LowerChar(c) ==
    IF c = CapitalIDot THEN <<"i", CombiningDot>>
    ELSE Only({
        IF run = 0 \/ (code - LowerRuns[run][1]) % LowerRuns[run][3] # 0 THEN <<c>>
        ELSE <<CharOf(code + LowerRuns[run][4])>> :
        code \in {CodeOf(c)}, run \in {FindRow(CodeOf(c), LowerRuns, 1, Len(LowerRuns))}})

\* the lower-case form of the CapitalSigma at s[i]: FinalSigma when the
\* nearest character before it that is not case-ignorable is cased and the
\* nearest such character after it, if there is one, is not; SmallSigma
\* otherwise
handle_capital_sigma(s, i) ==
    LET before == {j \in 1..(i - 1) : ~IsCaseIgnorable(s[j])}
        after == {j \in (i + 1)..Len(s) : ~IsCaseIgnorable(s[j])}
        last == CHOOSE j \in before : \A k \in before : k <= j
        next == CHOOSE j \in after : \A k \in after : j <= k
    IN  IF /\ before # {}
           /\ IsCased(s[last])
           /\ (after = {} \/ ~IsCased(s[next]))
        THEN FinalSigma ELSE SmallSigma

\* the lower-case forms of the characters lo..hi of s, one after the other
RECURSIVE LowerRange(_, _, _)
LowerRange(s, lo, hi) ==
    IF lo > hi THEN <<>>
    ELSE IF lo = hi
    THEN IF s[lo] = CapitalSigma THEN <<handle_capital_sigma(s, lo)>> ELSE LowerChar(s[lo])
    ELSE LowerRange(s, lo, (lo + hi) \div 2) \o LowerRange(s, (lo + hi) \div 2 + 1, hi)

\* str.lower()
Lower(s) == LowerRange(s, 1, Len(s))

----------------------------------------------------------------------------
(* The clock: datetime.now() *)

\* the calendar date of day index d, for -30 <= d <= 31; day 0 is
\* 2026-12-31, so that the days of the model cross a year boundary
DateOf(d) ==
    IF d <= 0 THEN [year |-> 2026, month |-> 12, day |-> 31 + d]
    ELSE [year |-> 2027, month |-> 1, day |-> d]

\* datetime.strftime("%Y-%m-%d")
strftime(d) ==
    LET t == DateOf(d) IN
    IntToStr(t.year) \o <<"-">> \o Pad2(t.month) \o <<"-">> \o Pad2(t.day)

----------------------------------------------------------------------------
(* article_generator.py: ArticleGenerator *)

PaperExplained ==
    <<"P", "a", "p", "e", "r", " ", "E", "x", "p", "l", "a", "i", "n", "e", "d", ":", " ">>
GuideSuffix ==
    <<" ", "-", " ", "A", " ", "B", "e", "g", "i", "n", "n", "e", "r", "'", "s", " ",
      "G", "u", "i", "d", "e">>
ErrorPrefix ==
    <<"E", "r", "r", "o", "r", " ", "g", "e", "n", "e", "r", "a", "t", "i", "n", "g", " ",
      "c", "o", "n", "t", "e", "n", "t", ":", " ">>
MinRead == <<" ", "m", "i", "n", " ", "r", "e", "a", "d">>
Understanding ==
    <<"U", "n", "d", "e", "r", "s", "t", "a", "n", "d", "i", "n", "g", " ">>
HeartOf ==
    <<":", " ", "T", "h", "e", " ", "H", "e", "a", "r", "t", " ", "o", "f", " ">>
ArxivAbs ==
    <<"h", "t", "t", "p", "s", ":", "/", "/", "a", "r", "x", "i", "v", ".", "o", "r", "g",
      "/", "a", "b", "s", "/">>

\* the text-generation requests of one article, in the order generate_article
\* issues them; a prompt is the template's name with the values substituted
\* into it
Steps ==
    <<"background", "methodology", "results", "significance",
      "concept", "explanation", "summary", "subtitle">>

StepSet == Range(Steps)

\* the words-per-minute of the read time estimate
WordsPerMinute == 200

\* Python's round(n / d) for n >= 0, d > 0: to the nearest integer, a tie to
\* the even one
Round(n, d) ==
    LET q == n \div d
        r == n % d
    IN  IF 2 * r < d THEN q
        ELSE IF 2 * r > d THEN q + 1
        ELSE IF q % 2 = 0 THEN q ELSE q + 1

Max(a, b) == IF a >= b THEN a ELSE b
Min(a, b) == IF a <= b THEN a ELSE b

\* _call_openai whose placeholder drops the exception's text
call_openai_no_detail(prompt, resp) ==
    IF resp[prompt.template].ok
    THEN Strip(resp[prompt.template].text)
    ELSE ErrorPrefix

\* _call_openai: the reply of the service, stripped, or on any exception the
\* placeholder "Error generating content: {e}".  resp is the behaviour of the
\* service during this article: for each request whether it succeeds, and
\* the reply's text or the exception's text
call_openai(prompt, resp) ==
    IF resp[prompt.template].ok
    THEN Strip(resp[prompt.template].text)
    ELSE ErrorPrefix \o resp[prompt.template].text

\* the requests of a _call_openai that sends the prompt again when the
\* service raised
requests_with_retry(prompt, resp) ==
    IF resp[prompt.template].ok THEN <<prompt>> ELSE <<prompt, prompt>>

\* the requests one _call_openai sends to the service: one
\* client.chat.completions.create, whether it returns or raises
requests_of(prompt, resp) == <<prompt>>

\* the prompts of the sections, as f-strings over the paper
PaperPrompt(template, paper) ==
    [template |-> template, title |-> paper.title, summary |-> paper.summary]

SignificancePrompt(paper) ==
    [template |-> "significance", title |-> paper.title, summary |-> paper.summary,
     published |-> paper.published]

ExplanationPrompt(paper, concept_title) ==
    [template |-> "explanation", concept_title |-> concept_title,
     title |-> paper.title, summary |-> paper.summary]

\* _format_category
format_category(category_slug) ==
    CASE category_slug = "foundation-models" -> "Foundation Models"
      [] category_slug = "generative-models" -> "Generative Models"
      [] category_slug = "optimization" -> "Optimization"
      [] category_slug = "applications" -> "Applications"
      [] category_slug = "basic-concepts" -> "Basic Concepts"
      [] OTHER -> "Basic Concepts"

\* the keys of category_map in _format_category
category_map_slugs ==
    {"foundation-models", "generative-models", "optimization", "applications",
     "basic-concepts"}

\* the read time without its floor of one minute
read_time_unfloored(background, methodology, results, significance, concept_content) ==
    Round(WordCount(background \o methodology \o results \o significance
                    \o concept_content), WordsPerMinute)

\* the read time of generate_article: the five texts are concatenated and the
\* words of the concatenation counted
read_time_of(background, methodology, results, significance, concept_content) ==
    LET total_words ==
            WordCount(background \o methodology \o results \o significance
                      \o concept_content)
    IN  Max(1, Round(total_words, WordsPerMinute))

\* the KeyError of a paper[...] lookup: the requests issued before it
Raised(requests) == [raised |-> TRUE, requests |-> requests]

\* generate_article(paper) at day `now` with the service behaving as resp:
\* whether it raised, the article it returned, and the prompts it sent in order
generate_article(paper, resp, now) ==
    IF ~({"title", "summary"} \subseteq DOMAIN paper) THEN Raised(<<>>)
    ELSE
    LET p1 == PaperPrompt("background", paper)
        p2 == PaperPrompt("methodology", paper)
        p3 == PaperPrompt("results", paper)
        background == call_openai(p1, resp)
        methodology == call_openai(p2, resp)
        results == call_openai(p3, resp)
        sent3 == requests_of(p1, resp) \o requests_of(p2, resp) \o requests_of(p3, resp)
    IN
    IF "published" \notin DOMAIN paper THEN Raised(sent3)
    ELSE
    LET p4 == SignificancePrompt(paper)
        p5 == PaperPrompt("concept", paper)
        significance == call_openai(p4, resp)
        concept_title == Strip(call_openai(p5, resp))
        p6 == ExplanationPrompt(paper, concept_title)
        concept_content == call_openai(p6, resp)
        p7 == PaperPrompt("summary", paper)
        summary == Strip(call_openai(p7, resp))
        read_time ==
            read_time_of(background, methodology, results, significance,
                         concept_content)
        p8 == PaperPrompt("subtitle", paper)
        subtitle == Strip(call_openai(p8, resp))
        requests ==
            sent3 \o requests_of(p4, resp) \o requests_of(p5, resp)
            \o requests_of(p6, resp) \o requests_of(p7, resp) \o requests_of(p8, resp)
    IN
    IF ~({"category", "authors", "id"} \subseteq DOMAIN paper) THEN Raised(requests)
    ELSE
    [raised |-> FALSE,
     requests |-> requests,
     article |->
        [title |-> PaperExplained \o paper.title \o GuideSuffix,
         subtitle |-> subtitle,
         category |-> format_category(paper.category),
         authors |-> paper.authors,
         paper_url |-> ArxivAbs \o paper.id,
         read_time |-> IntToStr(read_time) \o MinRead,
         publish_date |-> strftime(now),
         concept_explained |-> concept_title,
         content |->
            [background |-> background, methodology |-> methodology,
             results |-> results, significance |-> significance],
         concept_explanation |->
            [title |-> Understanding \o concept_title \o HeartOf
                        \o Split(paper.title, <<":">>)[1],
             content |-> concept_content],
         summary |-> summary]]

----------------------------------------------------------------------------
(* content_manager.py: ContentManager *)

\* the character U+211D (DOUBLE-STRUCK CAPITAL R), named by its code point: an
\* upper-case letter (category Lu, isupper()) that has no lower-case form, so
\* str.lower() leaves it, and that \w matches like every letter
DoubleStruckR == "U+211D"

\* the character class \w of a str pattern
IsWordChar(c) == InRanges(CodeOf(c), WordRanges)

\* the characters that [^\w\s-] does not match
SlugKeeps(c) == IsWordChar(c) \/ IsSpace(c) \/ c = "-"

\* the character class [-\s]
IsSeparator(c) == c = "-" \/ IsSpace(c)

\* re.sub(r'[^\w\s-]', '', s)
KeepSlugChars(s) ==
    LET F[i \in 0..Len(s)] ==
            IF i = 0 THEN <<>>
            ELSE IF SlugKeeps(s[i]) THEN F[i - 1] \o <<s[i]>> ELSE F[i - 1]
    IN  F[Len(s)]

\* re.sub(r'[-\s]+', '-', s): every maximal run of separators becomes one "-"
CollapseSeparators(s) ==
    LET F[i \in 0..Len(s)] ==
            IF i = 0 THEN <<>>
            ELSE IF ~IsSeparator(s[i]) THEN F[i - 1] \o <<s[i]>>
            ELSE IF i > 1 /\ IsSeparator(s[i - 1]) THEN F[i - 1]
            ELSE F[i - 1] \o <<"-">>
    IN  F[Len(s)]

RECURSIVE LStripHyphen(_)
LStripHyphen(s) == IF s # <<>> /\ Head(s) = "-" THEN LStripHyphen(Tail(s)) ELSE s

RECURSIVE RStripHyphen(_)
RStripHyphen(s) ==
    IF s # <<>> /\ s[Len(s)] = "-"
    THEN RStripHyphen(SubSeq(s, 1, Len(s) - 1)) ELSE s

Dash == <<" ", "-", " ">>

\* the slug steps with the "-" stripped before the runs of separators are
\* turned into "-"
slugify_strip_first(paper_title) ==
    CollapseSeparators(LStripHyphen(RStripHyphen(KeepSlugChars(Lower(paper_title)))))

\* the three slug steps of _create_article_id: lower-case and drop what is
\* neither \w, \s nor "-", turn each run of separators into one "-",
\* strip the "-" at both ends
slugify(paper_title) ==
    LStripHyphen(RStripHyphen(CollapseSeparators(KeepSlugChars(Lower(paper_title)))))

\* the title part of _create_article_id: what follows "Paper Explained: ", up
\* to the first " - " if there is one; the whole title without the prefix
paper_title_of(title) ==
    IF Contains(title, PaperExplained)
    THEN LET after == Split(title, PaperExplained)[2]
         IN  IF Contains(after, Dash) THEN Split(after, Dash)[1] ELSE after
    ELSE title

\* _create_article_id
create_article_id(title) == slugify(paper_title_of(title))

\* _get_category_slug without the entry of 'Optimization'
get_category_slug_short(category) ==
    CASE category = "Foundation Models" -> "foundation-models"
      [] category = "Generative Models" -> "generative-models"
      [] category = "Applications" -> "applications"
      [] OTHER -> "basic-concepts"

\* _get_category_slug
get_category_slug(category) ==
    CASE category = "Foundation Models" -> "foundation-models"
      [] category = "Generative Models" -> "generative-models"
      [] category = "Optimization" -> "optimization"
      [] category = "Applications" -> "applications"
      [] category = "Basic Concepts" -> "basic-concepts"
      [] OTHER -> "basic-concepts"

\* the length above which _create_excerpt truncates
ExcerptLength == 200

SentenceEnd == <<".", " ">>
Ellipsis == <<".", ".", ".">>

\* _create_excerpt
create_excerpt(background) ==
    LET sentences == Split(background, SentenceEnd) IN
    IF Len(sentences) >= 2
    THEN sentences[1] \o SentenceEnd \o sentences[2] \o <<".">>
    ELSE IF Len(background) > ExcerptLength
         THEN SubSeq(background, 1, ExcerptLength) \o Ellipsis
         ELSE background

\* the entry integrate_articles builds for one article
CorpusEntry(article) ==
    [id |-> create_article_id(article.title),
     title |-> article.title,
     subtitle |-> article.subtitle,
     category |-> article.category,
     categorySlug |-> get_category_slug(article.category),
     authors |-> article.authors,
     paperUrl |-> article.paper_url,
     readTime |-> article.read_time,
     publishDate |-> article.publish_date,
     conceptExplained |-> article.concept_explained,
     content |-> article.content,
     conceptExplanation |-> article.concept_explanation,
     summary |-> article.summary,
     excerpt |-> create_excerpt(article.content.background)]

\* ContentManager.integrate_articles(articles): the content it writes to
\* articles.json, which is also what it returns.  The file is opened for
\* writing and never read: what it held before plays no part
integrate_articles(articles) == [i \in 1..Len(articles) |-> CorpusEntry(articles[i])]

\* the methods class ContentManager defines
ContentManagerMethods ==
    {"__init__", "ensure_directories", "integrate_articles", "_create_article_id",
     "_get_category_slug", "_create_excerpt", "_update_react_components",
     "_update_homepage_component", "_update_article_page_component",
     "_update_category_page_component"}

----------------------------------------------------------------------------
(* Files *)

\* articles.json does not exist
NoFile == [kind |-> "absent", value |-> <<>>]
\* articles.json holds text that json.load rejects
Malformed == [kind |-> "malformed", value |-> <<>>]
\* articles.json holds the JSON text of the list `value`
JsonFile(value) == [kind |-> "json", value |-> value]

\* the file holds a JSON list
IsList(file) == file.kind = "json"

\* articles.json holds the characters json.dump wrote
TextFile(text) == [kind |-> "text", value |-> text]

Backspace == CharOf(8)

\* '{0:04x}'.format(code)
Hex4(code) ==
    <<HexDigits[((code \div 4096) % 16) + 1], HexDigits[((code \div 256) % 16) + 1],
      HexDigits[((code \div 16) % 16) + 1], HexDigits[(code % 16) + 1]>>

\* the characters json.dumps escapes in a string: the quote, the backslash
\* and the control characters (ensure_ascii=False leaves every other
\* character as it is)
JsonEscaped == {"\"", "\\"} \cup {CharOf(code) : code \in 0..31}

\* the characters json.dumps writes after the backslash for an escaped
\* character: its letter, or u and four hexadecimal digits
EscapeLetter(c) ==
    CASE c \in {"\"", "\\"} -> <<c>>
      [] c = "\n" -> <<"n">>
      [] c = "\r" -> <<"r">>
      [] c = "\t" -> <<"t">>
      [] c = "\f" -> <<"f">>
      [] c = Backspace -> <<"b">>
      [] OTHER -> <<"u">> \o Hex4(CodeOf(c))

\* the character json.loads reads for a backslash and the letter c
EscapedChar(c) ==
    CASE c = "n" -> "\n"
      [] c = "r" -> "\r"
      [] c = "t" -> "\t"
      [] c = "f" -> "\f"
      [] c = "b" -> Backspace
      [] OTHER -> c

\* a string written between quotes with nothing escaped
json_string_raw(s) == <<"\"">> \o s \o <<"\"">>

\* the characters json.dumps writes for the characters lo..hi of s: each
\* escaped character as a backslash and its escape, the others as they are
RECURSIVE EscapeRange(_, _, _)
EscapeRange(s, lo, hi) ==
    IF lo > hi THEN <<>>
    ELSE IF lo = hi
    THEN IF s[lo] \in JsonEscaped THEN <<"\\">> \o EscapeLetter(s[lo]) ELSE <<s[lo]>>
    ELSE EscapeRange(s, lo, (lo + hi) \div 2) \o EscapeRange(s, (lo + hi) \div 2 + 1, hi)

\* json.dumps(s, ensure_ascii=False) of a str: its characters, escaped,
\* between quotes
json_string(s) == <<"\"">> \o EscapeRange(s, 1, Len(s)) \o <<"\"">>

\* json.loads of the text of a JSON string: the characters between the
\* quotes, each backslash and its letter read as one character, each
\* backslash, u and four hexadecimal digits as the character of that code,
\* and two such escapes that are a surrogate pair as the one character the
\* pair stands for
json_parse_string(text) ==
    LET body == SubSeq(text, 2, Len(text) - 1)
        \* the backslashes that directly precede position i
        Run(i) == Cardinality({j \in 1..(i - 1) : \A m \in j..(i - 1) : body[m] = "\\"})
    IN  Only({
            LET \* position i holds the letter of an escape
                Letter(i) == i > 1 /\ starts[i - 1]
                \* position i holds the u of a \u escape, of the code Code(i)
                IsU(i) == Letter(i) /\ body[i] = "u"
                Code(i) == HexValue(SubSeq(body, i + 1, i + 4))
                \* position i holds a hexadecimal digit of a \u escape
                InCode(i) == \E k \in 1..4 : i - k > 1 /\ IsU(i - k)
                \* position i holds the u of the second escape of a
                \* surrogate pair
                Low(i) == /\ i > 6 /\ i <= Len(body)
                          /\ IsU(i) /\ IsU(i - 6)
                          /\ Code(i - 6) \in 55296..56319
                          /\ Code(i) \in 56320..57343
                kept == SelectSeq([i \in 1..Len(body) |-> i],
                                  LAMBDA i : ~starts[i] /\ ~InCode(i) /\ ~Low(i))
            IN  [k \in 1..Len(kept) |->
                    IF ~Letter(kept[k]) THEN body[kept[k]]
                    ELSE IF body[kept[k]] # "u" THEN EscapedChar(body[kept[k]])
                    ELSE IF Low(kept[k] + 6)
                    THEN CharOf(65536 + 1024 * (Code(kept[k]) - 55296)
                                + (Code(kept[k] + 6) - 56320))
                    ELSE CharOf(Code(kept[k]))] :
            \* starts[i]: position i holds the backslash that starts an escape
            starts \in {[i \in 1..Len(body) |-> body[i] = "\\" /\ Run(i) % 2 = 0]}})

\* json.dump of the list integrate_articles built: every str of every entry
\* as json.dumps writes it.  The names of the categories and of the authors
\* are kept whole (they hold no character that is escaped), and so is the
\* nesting of lists and objects
json_dump(articles_data) ==
    [i \in DOMAIN articles_data |->
        LET e == articles_data[i] IN
        [id |-> json_string(e.id),
         title |-> json_string(e.title),
         subtitle |-> json_string(e.subtitle),
         category |-> e.category,
         categorySlug |-> e.categorySlug,
         authors |-> e.authors,
         paperUrl |-> json_string(e.paperUrl),
         readTime |-> json_string(e.readTime),
         publishDate |-> json_string(e.publishDate),
         conceptExplained |-> json_string(e.conceptExplained),
         content |-> [f \in DOMAIN e.content |-> json_string(e.content[f])],
         conceptExplanation |->
            [f \in DOMAIN e.conceptExplanation |-> json_string(e.conceptExplanation[f])],
         summary |-> json_string(e.summary),
         excerpt |-> json_string(e.excerpt)]]

\* json.load of the text json_dump wrote
json_load(text) ==
    [i \in DOMAIN text |->
        LET e == text[i] IN
        [id |-> json_parse_string(e.id),
         title |-> json_parse_string(e.title),
         subtitle |-> json_parse_string(e.subtitle),
         category |-> e.category,
         categorySlug |-> e.categorySlug,
         authors |-> e.authors,
         paperUrl |-> json_parse_string(e.paperUrl),
         readTime |-> json_parse_string(e.readTime),
         publishDate |-> json_parse_string(e.publishDate),
         conceptExplained |-> json_parse_string(e.conceptExplained),
         content |-> [f \in DOMAIN e.content |-> json_parse_string(e.content[f])],
         conceptExplanation |->
            [f \in DOMAIN e.conceptExplanation |->
                json_parse_string(e.conceptExplanation[f])],
         summary |-> json_parse_string(e.summary),
         excerpt |-> json_parse_string(e.excerpt)]]

\* the file as json.load reads it
ParsedFile(file) == IF file.kind = "text" THEN JsonFile(json_load(file.value)) ELSE file

\* an empty directory
EmptyDir == [name \in {} |-> <<>>]

\* writing `content` to the file `name` of directory `dir`
WriteFile(dir, name, content) ==
    [n \in DOMAIN dir \cup {name} |-> IF n = name THEN content ELSE dir[n]]

DotJson == <<".", "j", "s", "o", "n">>

\* sorted(seq, key=...)[::-1]: an ascending stable sort, then reversed, which
\* puts elements of equal keys in the reverse of their input order
sort_then_reverse(seq, geq) ==
    LET Insert(sorted, x) ==
            LET k == Cardinality({i \in 1..Len(sorted) : geq[x][sorted[i]]})
            IN  SubSeq(sorted, 1, k) \o <<x>> \o SubSeq(sorted, k + 1, Len(sorted))
        F[i \in 0..Len(seq)] == IF i = 0 THEN <<>> ELSE Insert(F[i - 1], i)
    IN  [k \in 1..Len(seq) |-> seq[F[Len(seq)][Len(seq) + 1 - k]]]

\* a stable sort of seq into non-increasing order, where geq[i][j] says
\* key(seq[i]) >= key(seq[j]): list.sort(key=..., reverse=True) keeps
\* elements of equal keys in their input order
SortDesc(seq, geq) ==
    LET Insert(sorted, x) ==
            LET k == Cardinality({i \in 1..Len(sorted) : geq[sorted[i]][x]})
            IN  SubSeq(sorted, 1, k) \o <<x>> \o SubSeq(sorted, k + 1, Len(sorted))
        F[i \in 0..Len(seq)] == IF i = 0 THEN <<>> ELSE Insert(F[i - 1], i)
    IN  [k \in 1..Len(seq) |-> seq[F[Len(seq)][k]]]

\* the sequences that list the elements of the set S once each
Orderings(S) ==
    {f \in [1..Cardinality(S) -> S] : \A i, j \in DOMAIN f : i # j => f[i] # f[j]}

----------------------------------------------------------------------------
(* daily_automation.py: DailyAutomation *)

\* self.max_daily_articles
max_daily_articles == 2

\* load_existing_articles: the JSON list of articles.json; [] when the file
\* does not exist, and [] when reading or parsing it raises
load_existing_articles(file) == IF IsList(file) THEN file.value ELSE <<>>

ArxivOrgAbs ==
    <<"a", "r", "x", "i", "v", ".", "o", "r", "g", "/", "a", "b", "s", "/">>

\* s.split('/')[-1]
LastPathPart(s) == LET parts == Split(s, <<"/">>) IN parts[Len(parts)]

\* get_existing_paper_ids
get_existing_paper_ids(articles) ==
    {articles[i].paper_id :
        i \in {j \in 1..Len(articles) : "paper_id" \in DOMAIN articles[j]}}
    \cup
    {LastPathPart(articles[i].url) :
        i \in {j \in 1..Len(articles) :
                /\ "paper_id" \notin DOMAIN articles[j]
                /\ "url" \in DOMAIN articles[j]
                /\ Contains(articles[j].url, ArxivOrgAbs)}}

\* x.get('relevance_score', 0)
RelevanceScore(paper) ==
    IF "relevance_score" \in DOMAIN paper THEN paper.relevance_score ELSE 0

\* the comparison of the keys of papers[i] and papers[j]
ScoreGeq(papers) ==
    [i \in DOMAIN papers |->
        [j \in DOMAIN papers |-> RelevanceScore(papers[i]) >= RelevanceScore(papers[j])]]

\* the filter of find_new_papers that lets every paper through
filter_new_keeps_all(recent_papers, existing_ids) == recent_papers

\* the filter of find_new_papers: the papers whose id is not in existing_ids,
\* in their order
filter_new(recent_papers, existing_ids) ==
    LET F[i \in 0..Len(recent_papers)] ==
            IF i = 0 THEN <<>>
            ELSE IF recent_papers[i].id \notin existing_ids
                 THEN F[i - 1] \o <<recent_papers[i]>>
                 ELSE F[i - 1]
    IN  F[Len(recent_papers)]

\* a selection that also drops the unseen papers of score 0
select_new_papers_scored(recent_papers, existing_ids, limit) ==
    LET unseen == SelectSeq(filter_new(recent_papers, existing_ids),
                            LAMBDA paper : RelevanceScore(paper) > 0)
        new_papers == SortDesc(unseen, ScoreGeq(unseen))
    IN  SliceTo(new_papers, limit)

\* the selection of find_new_papers: filter, sort by score, cut to the limit
select_new_papers(recent_papers, existing_ids, limit) ==
    LET unseen == filter_new(recent_papers, existing_ids)
        new_papers == SortDesc(unseen, ScoreGeq(unseen))
    IN  SliceTo(new_papers, limit)

\* find_new_papers, given the content of articles.json and the result of
\* search_recent_papers
find_new_papers(file, recent_papers) ==
    select_new_papers(recent_papers,
                      get_existing_paper_ids(load_existing_articles(file)),
                      max_daily_articles)

\* the state a generation loop carries from paper to paper: the list it
\* will return, the directory it writes to, the requests it has sent (each
\* with the position of its paper in the batch), and whether an exception
\* has left the loop
LoopStart(dir) ==
    [articles |-> <<>>, dir |-> dir, requests |-> <<>>, aborted |-> FALSE]

\* the same behaviour of the service for each of the n papers of a batch
ForAll(n, resp) == [i \in 1..n |-> resp]

Tagged(requests, i) == [k \in 1..Len(requests) |-> [paper |-> i, prompt |-> requests[k]]]

\* paper.get('categories', [])
CategoriesOf(paper) == IF "categories" \in DOMAIN paper THEN paper.categories ELSE <<>>

\* generate_articles_for_papers(papers): svc[i] is the behaviour of the
\* service while paper i is processed.  The except clause prints paper['id']
\* and so raises itself when the paper has no id
generate_articles_for_papers(papers, svc, now) ==
    LET Body(st, i) ==
            LET paper == papers[i]
                g == generate_article(paper, svc[i], now)
                sent == st.requests \o Tagged(g.requests, i)
            IN  IF st.aborted THEN st
                ELSE IF g.raised
                THEN [st EXCEPT !.requests = sent,
                                !.aborted = "id" \notin DOMAIN paper]
                ELSE [st EXCEPT
                        !.requests = sent,
                        !.articles = @ \o <<[paper_id |-> paper.id,
                                             arxiv_url |-> ArxivAbs \o paper.id,
                                             categories |-> CategoriesOf(paper)]
                                            @@ g.article>>]
        F[i \in 0..Len(papers)] ==
            IF i = 0 THEN LoopStart(EmptyDir) ELSE Body(F[i - 1], i)
    IN  F[Len(papers)]

DailyPrefix == <<"d", "a", "i", "l", "y", "_">>

\* f"generated_content/articles/daily_{article['paper_id']}.json"
daily_file_name(article) == DailyPrefix \o article.paper_id \o DotJson

\* save_generated_articles(articles): one file per article, named after its
\* paper id; the first write that fails raises and ends the loop.
\* unwritable is the set of paper ids whose file cannot be written
save_generated_articles(articles, dir, unwritable) ==
    LET F[i \in 0..Len(articles)] ==
            IF i = 0 THEN [dir |-> dir, raised |-> FALSE]
            ELSE IF F[i - 1].raised THEN F[i - 1]
            ELSE IF articles[i].paper_id \in unwritable
                 THEN [F[i - 1] EXCEPT !.raised = TRUE]
                 ELSE [F[i - 1] EXCEPT
                        !.dir = WriteFile(@, daily_file_name(articles[i]), articles[i])]
    IN  F[Len(articles)]

\* DailyAutomation.integrate_articles(articles): it calls
\* self.content_manager.integrate_articles_to_blog, which ContentManager does
\* not define, so the call raises AttributeError and the except clause prints
\* the error
daily_integrate_articles(articles, file) ==
    IF articles = <<>>
    THEN [file |-> file, printed |-> "No new articles to integrate"]
    ELSE IF "integrate_articles_to_blog" \in ContentManagerMethods
    THEN [file |-> JsonFile(integrate_articles(articles)),
          printed |-> "Successfully integrated new articles into blog"]
    ELSE [file |-> file, printed |-> "Error integrating articles"]

\* run_daily_update: file is articles.json and dir is
\* generated_content/articles before the run; the result holds both after
\* the run, the lines printed, the exit status, and what the steps returned
run_daily_update(file, dir, recent_papers, svc, unwritable, now) ==
    LET existing_ids == get_existing_paper_ids(load_existing_articles(file))
        new_papers == find_new_papers(file, recent_papers)
        gen == generate_articles_for_papers(new_papers, svc, now)
        saved == save_generated_articles(gen.articles, dir, unwritable)
        integrated == daily_integrate_articles(gen.articles, file)
        base == [file |-> file, dir |-> dir, existing_ids |-> existing_ids,
                 new_papers |-> new_papers, articles |-> <<>>,
                 requests |-> <<>>, printed |-> <<>>, exit |-> 0]
    IN  IF new_papers = <<>>
        THEN [base EXCEPT !.printed = <<"No new papers found. Exiting.">>]
        ELSE IF \E i \in DOMAIN new_papers : "title" \notin DOMAIN new_papers[i]
        THEN [base EXCEPT !.printed = <<"Error during daily update">>, !.exit = 1]
        ELSE IF gen.aborted
        THEN [base EXCEPT !.requests = gen.requests,
                          !.printed = <<"Error during daily update">>,
                          !.exit = 1]
        ELSE IF gen.articles = <<>>
        THEN [base EXCEPT !.requests = gen.requests,
                          !.printed = <<"No articles were generated successfully. Exiting.">>]
        ELSE IF saved.raised
        THEN [base EXCEPT !.dir = saved.dir,
                          !.articles = gen.articles,
                          !.requests = gen.requests,
                          !.printed = <<"Error during daily update">>,
                          !.exit = 1]
        ELSE [base EXCEPT !.file = integrated.file,
                          !.dir = saved.dir,
                          !.articles = gen.articles,
                          !.requests = gen.requests,
                          !.printed = <<integrated.printed,
                                        "Daily update completed successfully.">>]

----------------------------------------------------------------------------
(* arxiv_fetcher.py: ArxivFetcher *)

\* one entry of self.classic_papers; the abstract is kept as its opening
\* words, no operation of the program reads further into it
ClassicPaper(id, title, authors, abstract, published, category) ==
    [id |-> id, title |-> title, authors |-> authors, abstract |-> abstract,
     published |-> published, category |-> category, url |-> ArxivAbs \o id]

Classic1 ==
    ClassicPaper(
        <<"1", "7", "0", "6", ".", "0", "3", "7", "6", "2">>,
        <<"A", "t", "t", "e", "n", "t", "i", "o", "n", " ", "I", "s", " ", "A",
          "l", "l", " ", "Y", "o", "u", " ", "N", "e", "e", "d">>,
        <<"Ashish Vaswani", "Noam Shazeer", "Niki Parmar", "Jakob Uszkoreit", "Llion Jones", "Aidan N. Gomez", "Lukasz Kaiser", "Illia Polosukhin">>,
        <<"T", "h", "e", " ", "d", "o", "m", "i", "n", "a", "n", "t">>,
        "2017-06-12", "foundation-models")

Classic2 ==
    ClassicPaper(
        <<"1", "2", "0", "7", ".", "0", "5", "8", "0">>,
        <<"I", "m", "a", "g", "e", "N", "e", "t", " ", "C", "l", "a", "s", "s",
          "i", "f", "i", "c", "a", "t", "i", "o", "n", " ", "w", "i", "t", "h",
          " ", "D", "e", "e", "p", " ", "C", "o", "n", "v", "o", "l", "u", "t",
          "i", "o", "n", "a", "l", " ", "N", "e", "u", "r", "a", "l", " ", "N",
          "e", "t", "w", "o", "r", "k", "s">>,
        <<"Alex Krizhevsky", "Ilya Sutskever", "Geoffrey E. Hinton">>,
        <<"W", "e", " ", "t", "r", "a", "i", "n", "e", "d">>,
        "2012-07-03", "basic-concepts")

Classic3 ==
    ClassicPaper(
        <<"1", "4", "0", "6", ".", "2", "6", "6", "1">>,
        <<"G", "e", "n", "e", "r", "a", "t", "i", "v", "e", " ", "A", "d", "v",
          "e", "r", "s", "a", "r", "i", "a", "l", " ", "N", "e", "t", "w", "o",
          "r", "k", "s">>,
        <<"Ian J. Goodfellow", "Jean Pouget-Abadie", "Mehdi Mirza", "Bing Xu", "David Warde-Farley", "Sherjil Ozair", "Aaron Courville", "Yoshua Bengio">>,
        <<"W", "e", " ", "p", "r", "o", "p", "o", "s", "e">>,
        "2014-06-10", "generative-models")

Classic4 ==
    ClassicPaper(
        <<"1", "8", "1", "0", ".", "0", "4", "8", "0", "5">>,
        <<"B", "E", "R", "T", ":", " ", "P", "r", "e", "-", "t", "r", "a", "i",
          "n", "i", "n", "g", " ", "o", "f", " ", "D", "e", "e", "p", " ", "B",
          "i", "d", "i", "r", "e", "c", "t", "i", "o", "n", "a", "l", " ", "T",
          "r", "a", "n", "s", "f", "o", "r", "m", "e", "r", "s", " ", "f", "o",
          "r", " ", "L", "a", "n", "g", "u", "a", "g", "e", " ", "U", "n", "d",
          "e", "r", "s", "t", "a", "n", "d", "i", "n", "g">>,
        <<"Jacob Devlin", "Ming-Wei Chang", "Kenton Lee", "Kristina Toutanova">>,
        <<"W", "e", " ", "i", "n", "t", "r", "o", "d", "u", "c", "e">>,
        "2018-10-11", "foundation-models")

Classic5 ==
    ClassicPaper(
        <<"1", "9", "0", "9", ".", "1", "1", "9", "4", "2">>,
        <<"L", "a", "n", "g", "u", "a", "g", "e", " ", "M", "o", "d", "e", "l",
          "s", " ", "a", "r", "e", " ", "U", "n", "s", "u", "p", "e", "r", "v",
          "i", "s", "e", "d", " ", "M", "u", "l", "t", "i", "t", "a", "s", "k",
          " ", "L", "e", "a", "r", "n", "e", "r", "s">>,
        <<"Alec Radford", "Jeffrey Wu", "Rewon Child", "David Luan", "Dario Amodei", "Ilya Sutskever">>,
        <<"N", "a", "t", "u", "r", "a", "l", " ", "l", "a", "n", "g", "u", "a",
          "g", "e">>,
        "2019-02-14", "foundation-models")

\* get_classic_papers
get_classic_papers == <<Classic1, Classic2, Classic3, Classic4, Classic5>>

\* the papers the arXiv service holds while the model runs: two papers whose
\* titles differ and give the same slug
Live1 == <<"2", "6", "1", "2", ".", "1", "v", "1">>
Live2 == <<"2", "6", "1", "2", ".", "2", "v", "1">>
LiveIds == {Live1, Live2}

LiveTitle(id) ==
    IF id = Live1
    THEN <<"D", "e", "e", "p", " ", "N", "e", "t", "s">>
    ELSE <<"d", "e", "e", "p", "-", "n", "e", "t", "s", "!">>

LiveAbstract(id) ==
    IF id = Live1
    THEN <<"W", "e", " ", "t", "r", "a", "i", "n", ".">>
    ELSE <<"W", "e", " ", "t", "e", "s", "t", ".">>

\* the dictionary _parse_entry builds for an entry of the arXiv API: it has
\* the key 'abstract' and no key 'summary'
ParsedPaper(id) ==
    [id |-> id, title |-> LiveTitle(id), authors |-> <<"A. Author">>,
     abstract |-> LiveAbstract(id), published |-> "2026-12-30",
     category |-> "foundation-models", url |-> ArxivAbs \o id,
     arxiv_categories |-> <<"cs.LG">>]

\* the first category of the list that the mapping knows, or the default
RECURSIVE FirstMapped(_, _)
FirstMapped(arxiv_categories, category_mapping) ==
    IF arxiv_categories = <<>> THEN "basic-concepts"
    ELSE IF Head(arxiv_categories) \in DOMAIN category_mapping
         THEN category_mapping[Head(arxiv_categories)]
         ELSE FirstMapped(Tail(arxiv_categories), category_mapping)

\* ArxivFetcher._map_category
arxiv_map_category(arxiv_categories) ==
    FirstMapped(arxiv_categories,
        [cat \in {"cs.LG", "cs.CL", "cs.CV", "cs.AI", "cs.NE", "stat.ML",
                  "cs.RO", "cs.HC", "q-bio"} |->
            CASE cat \in {"cs.LG", "cs.CL", "cs.AI", "stat.ML"} -> "foundation-models"
              [] cat \in {"cs.CV", "cs.NE"} -> "basic-concepts"
              [] OTHER -> "applications"])

\* an <entry> of the Atom feed: the texts of its elements, an element that is
\* missing being no key of the record
AtomEntry(id, published, categories) ==
    [title |-> <<" ">> \o LiveTitle(id) \o <<"\n">>,
     summary |-> LiveAbstract(id) \o <<" ">>,
     published |-> strftime(published) \o <<"T", "0", "9", ":", "0", "0", ":", "0", "0", "Z">>,
     id |-> <<"h", "t", "t", "p", ":", "/", "/">> \o ArxivOrgAbs \o id,
     authors |-> <<[name |-> "A. Author"]>>,
     categories |-> categories]

\* Python's None, as _parse_entry returns it
None == [none |-> TRUE]

\* _parse_entry: the paper dictionary, or None when an exception is raised:
\* one of the four elements is missing (find returns None) or is there with
\* no text (its .text is None), or an <author> has no <name>.  An entry is
\* the record of its elements, each with its text; entry.authors lists the
\* <author> elements, each the record of its own elements
parse_entry(entry) ==
    IF \/ ~({"title", "summary", "published", "id"} \subseteq DOMAIN entry)
       \/ <<>> \in {entry.title, entry.summary, entry.published, entry.id}
       \/ \E i \in DOMAIN entry.authors : "name" \notin DOMAIN entry.authors[i]
    THEN None
    ELSE [id |-> LastPathPart(entry.id),
          title |-> Replace(Strip(entry.title), "\n", " "),
          authors |-> [i \in DOMAIN entry.authors |-> entry.authors[i].name],
          abstract |-> Replace(Strip(entry.summary), "\n", " "),
          published |-> SliceTo(entry.published, 10),
          category |-> arxiv_map_category(entry.categories),
          url |-> ArxivAbs \o LastPathPart(entry.id),
          arxiv_categories |-> entry.categories]

\* search_papers without the check of the response's status
search_papers_unchecked(response) ==
    LET parsed == [i \in DOMAIN response.entries |-> parse_entry(response.entries[i])]
    IN  SelectSeq(parsed, LAMBDA paper : paper # None)

\* search_papers, given the response to its request: the papers of the
\* entries that parse; [] when the request, the status check or the XML
\* parser raises
search_papers(response) ==
    IF response.raised THEN <<>>
    ELSE LET parsed == [i \in DOMAIN response.entries |-> parse_entry(response.entries[i])]
         IN  SelectSeq(parsed, LAMBDA paper : paper # None)

\* the comparison of the keys of papers[i] and papers[j]
PublishedGeq(papers) ==
    [i \in DOMAIN papers |->
        [j \in DOMAIN papers |-> ~StrLess(papers[i].published, papers[j].published)]]

\* get_recent_papers(days), given the responses to the requests of its four
\* categories: the ten most recently published of all papers found
get_recent_papers(responses) ==
    LET all_papers ==
            search_papers(responses[1]) \o search_papers(responses[2])
                \o search_papers(responses[3]) \o search_papers(responses[4])
        sorted == SortDesc(all_papers, PublishedGeq(all_papers))
    IN  SliceTo(sorted, 10)

----------------------------------------------------------------------------
(* enhanced_arxiv_fetcher.py: EnhancedArxivFetcher *)

\* the dictionary search_recent_papers builds for a result of the arxiv
\* library (its keys updated, pdf_url and entry_id, which nothing reads, are
\* left out)
EnhancedPaper(id, score) ==
    [id |-> id, title |-> LiveTitle(id), authors |-> <<"A. Author">>,
     summary |-> LiveAbstract(id), published |-> "2026-12-30T09:00:00+00:00",
     categories |-> <<"cs.LG">>, relevance_score |-> score,
     category |-> "foundation-models"]

\* seq lists papers of pairwise distinct ids by non-increasing score
IsSearchResult(seq) ==
    /\ \A i, j \in DOMAIN seq : i # j => seq[i].id # seq[j].id
    /\ \A i, j \in DOMAIN seq : i < j => seq[i].relevance_score >= seq[j].relevance_score

\* what search_recent_papers can return: papers of the service with pairwise
\* distinct ids, sorted by relevance score
RecentResults ==
    LET Scored == {EnhancedPaper(id, sc) : id \in LiveIds, sc \in 0..MaxScore}
    IN  {seq \in UNION {[1..n -> Scored] : n \in 0..Cardinality(LiveIds)} :
            IsSearchResult(seq)}

\* what the arxiv library yields for one paper (arxiv.Result): published is
\* the day index of its publication; every time of day in the model is the
\* hour of the run, so that differences of datetimes are whole days
RawResult(id, title, summary, published, categories) ==
    [entry_id |-> <<"h", "t", "t", "p", ":", "/", "/">> \o ArxivOrgAbs \o id,
     title |-> title, authors |-> <<"A. Author">>, summary |-> summary,
     published |-> published, categories |-> categories]

\* datetime.isoformat() of a publication day
isoformat(d) == strftime(d) \o <<"T", "0", "9", ":", "0", "0", ":", "0", "0", "+", "0", "0", ":", "0", "0">>

high_value_categories == {"cs.AI", "cs.LG", "cs.CV", "cs.CL"}
medium_value_categories == {"cs.NE", "stat.ML", "cs.IR"}
relevant_categories == {"cs.AI", "cs.LG", "cs.CV", "cs.CL", "cs.NE", "stat.ML"}

important_keywords ==
    <<<<"t", "r", "a", "n", "s", "f", "o", "r", "m", "e", "r">>,
      <<"a", "t", "t", "e", "n", "t", "i", "o", "n">>,
      <<"n", "e", "u", "r", "a", "l", " ", "n", "e", "t", "w", "o", "r", "k">>,
      <<"d", "e", "e", "p", " ", "l", "e", "a", "r", "n", "i", "n", "g">>,
      <<"m", "a", "c", "h", "i", "n", "e", " ", "l", "e", "a", "r", "n", "i", "n", "g">>,
      <<"a", "r", "t", "i", "f", "i", "c", "i", "a", "l", " ", "i", "n", "t", "e", "l", "l", "i", "g", "e", "n", "c", "e">>,
      <<"g", "e", "n", "e", "r", "a", "t", "i", "v", "e">>,
      <<"c", "l", "a", "s", "s", "i", "f", "i", "c", "a", "t", "i", "o", "n">>,
      <<"d", "e", "t", "e", "c", "t", "i", "o", "n">>,
      <<"s", "e", "g", "m", "e", "n", "t", "a", "t", "i", "o", "n">>,
      <<"l", "a", "n", "g", "u", "a", "g", "e", " ", "m", "o", "d", "e", "l">>,
      <<"c", "o", "m", "p", "u", "t", "e", "r", " ", "v", "i", "s", "i", "o", "n">>,
      <<"n", "a", "t", "u", "r", "a", "l", " ", "l", "a", "n", "g", "u", "a", "g", "e", " ", "p", "r", "o", "c", "e", "s", "s", "i", "n", "g">>,
      <<"r", "e", "i", "n", "f", "o", "r", "c", "e", "m", "e", "n", "t", " ", "l", "e", "a", "r", "n", "i", "n", "g">>,
      <<"d", "i", "f", "f", "u", "s", "i", "o", "n">>,
      <<"l", "l", "m">>,
      <<"l", "a", "r", "g", "e", " ", "l", "a", "n", "g", "u", "a", "g", "e", " ", "m", "o", "d", "e", "l">>,
      <<"m", "u", "l", "t", "i", "m", "o", "d", "a", "l">>,
      <<"v", "i", "s", "i", "o", "n", " ", "t", "r", "a", "n", "s", "f", "o", "r", "m", "e", "r">>>>

\* the sum of f[i] over the domain of the sequence f
RECURSIVE SumSeq(_)
SumSeq(f) == IF f = <<>> THEN 0 ELSE Head(f) + SumSeq(Tail(f))

\* _calculate_relevance_score whose abstract test is an `if`, not an `elif`:
\* a keyword of the title that is also in the abstract counts for both
calculate_relevance_score_both(result, now) ==
    LET category_score ==
            SumSeq([i \in DOMAIN result.categories |->
                IF result.categories[i] \in high_value_categories THEN 10
                ELSE IF result.categories[i] \in medium_value_categories THEN 5
                ELSE 0])
        keyword_score ==
            Only({SumSeq([k \in DOMAIN important_keywords |->
                      (IF Contains(title_lower, important_keywords[k]) THEN 3 ELSE 0)
                      + (IF Contains(summary_lower, important_keywords[k]) THEN 1 ELSE 0)]) :
                  title_lower \in {Lower(result.title)},
                  summary_lower \in {Lower(result.summary)}})
        days_old == now - result.published
        recency_bonus ==
            IF days_old <= 1 THEN 5
            ELSE IF days_old <= 7 THEN 3
            ELSE IF days_old <= 30 THEN 1
            ELSE 0
        length_bonus ==
            IF Len(result.summary) > 1000 THEN 2
            ELSE IF Len(result.summary) > 500 THEN 1
            ELSE 0
    IN  category_score + keyword_score + recency_bonus + length_bonus

\* _calculate_relevance_score(result) at day `now`
calculate_relevance_score(result, now) ==
    LET category_score ==
            SumSeq([i \in DOMAIN result.categories |->
                IF result.categories[i] \in high_value_categories THEN 10
                ELSE IF result.categories[i] \in medium_value_categories THEN 5
                ELSE 0])
        keyword_score ==
            Only({SumSeq([k \in DOMAIN important_keywords |->
                      IF Contains(title_lower, important_keywords[k]) THEN 3
                      ELSE IF Contains(summary_lower, important_keywords[k]) THEN 1
                      ELSE 0]) :
                  title_lower \in {Lower(result.title)},
                  summary_lower \in {Lower(result.summary)}})
        days_old == now - result.published
        recency_bonus ==
            IF days_old <= 1 THEN 5
            ELSE IF days_old <= 7 THEN 3
            ELSE IF days_old <= 30 THEN 1
            ELSE 0
        length_bonus ==
            IF Len(result.summary) > 1000 THEN 2
            ELSE IF Len(result.summary) > 500 THEN 1
            ELSE 0
    IN  category_score + keyword_score + recency_bonus + length_bonus

\* EnhancedArxivFetcher._map_category
enhanced_map_category(arxiv_categories) ==
    FirstMapped(arxiv_categories,
        [cat \in {"cs.LG", "cs.CL", "cs.CV", "cs.AI", "cs.NE", "stat.ML",
                  "cs.RO", "cs.HC", "q-bio"} |->
            CASE cat \in {"cs.LG", "cs.CL", "cs.AI", "stat.ML"} -> "foundation-models"
              [] cat \in {"cs.CV", "cs.NE"} -> "basic-concepts"
              [] OTHER -> "ai-applications"])

\* the paper_data dictionary of search_recent_papers (its keys updated,
\* pdf_url and entry_id, which nothing reads, are left out)
paper_data(result, now) ==
    [id |-> LastPathPart(result.entry_id),
     title |-> result.title,
     authors |-> result.authors,
     summary |-> result.summary,
     published |-> isoformat(result.published),
     categories |-> result.categories,
     relevance_score |-> calculate_relevance_score(result, now),
     category |-> enhanced_map_category(result.categories)]

\* the papers one query of search_recent_papers adds: the results of a
\* relevant category published since start_date.  An exception (the
\* connection failing, a result that cannot be read) ends the query and
\* keeps what was appended before it
query_papers(outcome, days_back, now) ==
    LET kept == SelectSeq(outcome.results,
                    LAMBDA result :
                        /\ \E i \in DOMAIN result.categories :
                            result.categories[i] \in relevant_categories
                        /\ result.published >= now - days_back)
    IN  [i \in DOMAIN kept |-> paper_data(kept[i], now)]

\* the deduplication in which a later paper of an id replaces the earlier one
RECURSIVE unique_papers_last(_, _)
unique_papers_last(papers, seen) ==
    IF papers = <<>> THEN <<>>
    ELSE IF \E i \in 2..Len(papers) : papers[i].id = Head(papers).id
         THEN unique_papers_last(Tail(papers), seen)
    ELSE <<Head(papers)>> \o unique_papers_last(Tail(papers), seen)

\* the first paper of each id, in order
RECURSIVE unique_papers(_, _)
unique_papers(papers, seen) ==
    IF papers = <<>> THEN <<>>
    ELSE IF Head(papers).id \in seen THEN unique_papers(Tail(papers), seen)
    ELSE <<Head(papers)>> \o unique_papers(Tail(papers), seen \cup {Head(papers).id})

\* search_recent_papers(query, max_results, days_back) at day `now`, given
\* for each of its three queries what search.results() yielded and whether
\* it then raised
search_recent_papers(outcomes, max_results, days_back, now) ==
    LET all_papers ==
            query_papers(outcomes[1], days_back, now)
                \o query_papers(outcomes[2], days_back, now)
                \o query_papers(outcomes[3], days_back, now)
        unique == unique_papers(all_papers, {})
        sorted_papers == SortDesc(unique, ScoreGeq(unique))
    IN  SliceTo(sorted_papers, max_results)

----------------------------------------------------------------------------
(* article_generator.py: generate_multiple_articles;
   blog_automation.py: BlogAutomation *)

ArticlePrefix == <<"a", "r", "t", "i", "c", "l", "e", "_">>
ClassicPrefix == <<"c", "l", "a", "s", "s", "i", "c", "_">>
RecentPrefix == <<"r", "e", "c", "e", "n", "t", "_">>
SamplePrefix == <<"s", "a", "m", "p", "l", "e", "_">>
SearchPrefix == <<"s", "e", "a", "r", "c", "h", "_">>

\* f"{prefix}{paper['id'].replace('/', '_')}.json"
IdFileName(prefix, paper) == prefix \o Replace(paper.id, "/", "_") \o DotJson

\* generate_multiple_articles handing the papers to a pool of workers: the
\* requests of all the papers are sent step by step
generate_multiple_articles_pooled(papers, svc, now, dir, unwritable) ==
    LET g == [i \in DOMAIN papers |-> generate_article(papers[i], svc[i], now)]
        sent == [i \in DOMAIN papers |-> Tagged(g[i].requests, i)]
        StepRound(k) ==
            LET F[i \in 0..Len(papers)] ==
                    IF i = 0 THEN <<>>
                    ELSE IF k <= Len(sent[i]) THEN F[i - 1] \o <<sent[i][k]>>
                    ELSE F[i - 1]
            IN  F[Len(papers)]
        R[k \in 0..Len(Steps)] == IF k = 0 THEN <<>> ELSE R[k - 1] \o StepRound(k)
        A[i \in 0..Len(papers)] ==
            IF i = 0 THEN <<>>
            ELSE IF g[i].raised THEN A[i - 1] ELSE A[i - 1] \o <<g[i].article>>
    IN  [articles |-> A[Len(papers)], dir |-> dir, requests |-> R[Len(Steps)],
         aborted |-> FALSE]

\* generate_multiple_articles(papers, output_dir): the article is saved and
\* then appended, both inside the try; the except clause prints
\* paper['title'] and so raises itself when the paper has no title
generate_multiple_articles(papers, svc, now, dir, unwritable) ==
    LET Body(st, i) ==
            LET paper == papers[i]
                g == generate_article(paper, svc[i], now)
                sent == st.requests \o Tagged(g.requests, i)
            IN  IF st.aborted THEN st
                ELSE IF g.raised
                THEN [st EXCEPT !.requests = sent,
                                !.aborted = "title" \notin DOMAIN paper]
                ELSE IF paper.id \in unwritable
                THEN [st EXCEPT !.requests = sent]
                ELSE [st EXCEPT
                        !.requests = sent,
                        !.dir = WriteFile(@, IdFileName(ArticlePrefix, paper), g.article),
                        !.articles = @ \o <<g.article>>]
        F[i \in 0..Len(papers)] ==
            IF i = 0 THEN LoopStart(dir) ELSE Body(F[i - 1], i)
    IN  F[Len(papers)]

ClassicFileName(paper, i) == IdFileName(ClassicPrefix, paper)
RecentFileName(paper, i) == IdFileName(RecentPrefix, paper)
\* f"search_{query_safe}_{i+1}.json", for the one query "q" of the model
SearchFileName(paper, i) == SearchPrefix \o <<"q", "_">> \o IntToStr(i) \o DotJson

\* the file a generation mode of BlogAutomation saves the article of paper
\* number i to
BlogFileName(mode, paper, i) ==
    CASE mode = "classic" -> ClassicFileName(paper, i)
      [] mode = "recent" -> RecentFileName(paper, i)
      [] OTHER -> SearchFileName(paper, i)

\* the loop of generate_classic_content, generate_recent_content and
\* search_and_generate: the article is appended and then saved to the file
\* BlogFileName(mode, paper, i), both inside the try
blog_generation_loop(papers, svc, now, dir, unwritable, mode) ==
    LET Body(st, i) ==
            LET paper == papers[i]
                g == generate_article(paper, svc[i], now)
                sent == st.requests \o Tagged(g.requests, i)
            IN  IF st.aborted THEN st
                ELSE IF g.raised
                THEN [st EXCEPT !.requests = sent,
                                !.aborted = "title" \notin DOMAIN paper]
                ELSE IF paper.id \in unwritable
                THEN [st EXCEPT !.requests = sent,
                                !.articles = @ \o <<g.article>>]
                ELSE [st EXCEPT
                        !.requests = sent,
                        !.articles = @ \o <<g.article>>,
                        !.dir = WriteFile(@, BlogFileName(mode, paper, i), g.article)]
        F[i \in 0..Len(papers)] ==
            IF i = 0 THEN LoopStart(dir) ELSE Body(F[i - 1], i)
    IN  F[Len(papers)]

\* generate_classic_content
generate_classic_content(svc, now, dir, unwritable) ==
    blog_generation_loop(get_classic_papers, svc, now, dir, unwritable, "classic")

\* generate_recent_content(days, max_papers), given what get_recent_papers
\* returned
generate_recent_content(fetched, max_papers, svc, now, dir, unwritable) ==
    LET papers == SliceTo(fetched, max_papers)
    IN  IF papers = <<>> THEN LoopStart(dir)
        ELSE blog_generation_loop(papers, svc, now, dir, unwritable, "recent")

\* search_and_generate(query, category, max_results), given what
\* search_papers returned
search_and_generate(fetched, svc, now, dir, unwritable) ==
    IF fetched = <<>> THEN LoopStart(dir)
    ELSE blog_generation_loop(fetched, svc, now, dir, unwritable, "search")

\* x.get('publish_date', '')
PublishDate(article) ==
    IF "publish_date" \in DOMAIN article THEN article.publish_date ELSE <<>>

\* the comparison of the keys of articles[i] and articles[j]
DateGeq(articles) ==
    [i \in DOMAIN articles |->
        [j \in DOMAIN articles |->
            ~StrLess(PublishDate(articles[i]), PublishDate(articles[j]))]]

\* integrate_all_content: listing is the order in which os.listdir names the
\* files of generated_content/articles.  The result is articles.json after
\* the call and the list returned
integrate_all_content(file, dir, listing) ==
    LET articles == [i \in 1..Len(listing) |-> dir[listing[i]]]
        sorted == SortDesc(articles, DateGeq(articles))
    IN  IF articles # <<>>
        THEN [file |-> JsonFile(integrate_articles(sorted)), articles |-> sorted]
        ELSE [file |-> file, articles |-> <<>>]

\* main() of content_manager.py: the files of articles/ in the order
\* os.listdir names them, handed to integrate_articles as they come
content_manager_main(file, dir, listing) ==
    LET articles == [i \in 1..Len(listing) |-> dir[listing[i]]]
    IN  IF articles # <<>>
        THEN [file |-> JsonFile(integrate_articles(articles)), articles |-> articles]
        ELSE [file |-> file, articles |-> <<>>]

\* the generation half of full_automation(include_recent), given what
\* get_recent_papers returned: classic content, then recent content with the
\* defaults of generate_recent_content
full_automation_generate(include_recent, fetched, resp, now, dir, unwritable) ==
    Only({
      Only({
        [articles |-> classic.articles \o recent.articles,
         dir |-> recent.dir,
         requests |-> classic.requests \o recent.requests,
         aborted |-> classic.aborted \/ recent.aborted] :
        recent \in {IF include_recent /\ ~classic.aborted
                    THEN generate_recent_content(fetched, 5, ForAll(Len(fetched), resp),
                                                 now, classic.dir, unwritable)
                    ELSE LoopStart(classic.dir)}}) :
      classic \in {generate_classic_content(ForAll(Len(get_classic_papers), resp), now,
                                            dir, unwritable)}})

\* full_automation(include_recent) after its generation half returned gen:
\* integrate_all_content follows when any article was generated
full_automation(gen, file, listing) ==
    LET integrated ==
            IF gen.articles # <<>> /\ ~gen.aborted
            THEN integrate_all_content(file, gen.dir, listing)
            ELSE [file |-> file, articles |-> <<>>]
    IN  [file |-> integrated.file, dir |-> gen.dir, articles |-> gen.articles,
         requests |-> gen.requests, aborted |-> gen.aborted]

\* create_sample_article(paper_id): the article returned, or None
create_sample_article(paper_id, resp, now, dir, unwritable) ==
    LET found == {i \in DOMAIN get_classic_papers : get_classic_papers[i].id = paper_id}
        paper == get_classic_papers[CHOOSE i \in found : \A j \in found : i <= j]
        g == generate_article(paper, resp, now)
    IN  IF found = {}
        THEN [dir |-> dir, articles |-> <<>>, requests |-> <<>>, aborted |-> FALSE]
        ELSE IF g.raised \/ paper_id \in unwritable
        THEN [dir |-> dir, articles |-> <<>>, requests |-> g.requests, aborted |-> FALSE]
        ELSE [dir |-> WriteFile(dir, SamplePrefix \o Replace(paper_id, "/", "_") \o DotJson,
                                g.article),
              articles |-> <<g.article>>,
              requests |-> g.requests,
              aborted |-> FALSE]

----------------------------------------------------------------------------
(* The text-generation service and the disk, as the runs find them *)

\* the text of the exception a failed request raises
ServiceErrors ==
    {<<"t", "i", "m", "e", "o", "u", "t">>,
     <<"H", "T", "T", "P", " ", "5", "0", "3", " ">>}

\* the reply of the service to a request of template `step`: replies differ
\* from step to step and carry the leading and trailing whitespace that
\* _call_openai strips
SampleReply(step) ==
    CASE step = "background" -> <<"O", "l", "d", ".", " ", "S", "l", "o", "w", ".", " ", "B", "a", "d", ".", "\n">>
      [] step = "methodology" -> <<" ", "T", "w", "o", " ", "s", "t", "e", "p", "s">>
      [] step = "results" -> <<"I", "t", " ", "w", "o", "n">>
      [] step = "significance" -> <<"U", "s", "e", "d", " ", "n", "o", "w", " ">>
      [] step = "concept" -> <<" ", "S", "e", "l", "f", " ", "A", "t", "t", "e", "n", "t", "i", "o", "n", "\n">>
      [] step = "explanation" -> <<"L", "i", "k", "e", " ", "a", " ", "m", "a", "p">>
      [] step = "summary" -> <<"I", "t", " ", "w", "o", "r", "k", "s", ".", " ">>
      [] OTHER -> <<" ", "H", "o", "w", " ", "i", "t", " ", "w", "o", "r", "k", "s">>

\* the service while one article is generated: the requests of the templates
\* in `fails` raise an exception of text err, the others are answered
Service(fails, err) ==
    [step \in StepSet |->
        IF step \in fails THEN [ok |-> FALSE, text |-> err]
        ELSE [ok |-> TRUE, text |-> SampleReply(step)]]

\* the service as the runs of the pipeline find it: every request answered
\* (the batches of SpecBatch meet the failing service)
Timeout == <<"t", "i", "m", "e", "o", "u", "t">>
ServiceUp == Service({}, Timeout)

\* the disk as a run finds it: every article file writable, or none
DiskStates == {{}, LiveIds}

\* what search_papers and get_recent_papers can return: papers of the
\* service in the shape _parse_entry gives them
FetchedResults ==
    UNION {[1..n -> {ParsedPaper(id) : id \in LiveIds}] : n \in 0..Cardinality(LiveIds)}

\* the paper ids whose articles articles.json holds
CorpusPaperIds(file) ==
    {LastPathPart(file.value[i].paperUrl) : i \in DOMAIN file.value}

\* the paper ids of a list of articles
PaperIdsOf(articles) == [i \in DOMAIN articles |-> LastPathPart(articles[i].paper_url)]

NoCall == [op |-> "none"]

----------------------------------------------------------------------------
(* The pipeline: the runs of daily_automation.py and blog_automation.py over
   one working directory and one blog *)

Init ==
    /\ today = 0
    /\ corpus \in {NoFile, Malformed}
    /\ gen_dir = EmptyDir
    /\ art_dir = EmptyDir
    /\ call = NoCall
    /\ ret = NoCall

\* a day passes
Tick ==
    /\ today < MaxDay
    /\ today' = today + 1
    /\ UNCHANGED <<corpus, gen_dir, art_dir, call, ret>>

\* python daily_automation.py
RunDailyUpdate ==
    \E recent_papers \in RecentResults, unwritable \in DiskStates :
      \E r \in {run_daily_update(corpus, gen_dir, recent_papers,
                                 ForAll(Len(recent_papers), ServiceUp), unwritable, today)} :
        /\ corpus' = r.file
        /\ gen_dir' = r.dir
        /\ call' = call
        /\ ret' = [op |-> "run_daily_update", existing_ids |-> r.existing_ids,
                   selected |-> [i \in DOMAIN r.new_papers |-> r.new_papers[i].id],
                   generated |-> PaperIdsOf(r.articles),
                   printed |-> r.printed,
                   exit |-> r.exit]
        /\ UNCHANGED <<today, art_dir>>

\* what a generation mode of blog_automation.py leaves behind
BlogGenerated(op, r) ==
    /\ gen_dir' = r.dir
    /\ call' = call
    /\ ret' = [op |-> op, generated |-> PaperIdsOf(r.articles), exit |-> IF r.aborted THEN 1 ELSE 0]
    /\ UNCHANGED <<today, corpus, art_dir>>

\* python blog_automation.py --mode classic
GenerateClassicContent ==
    \E unwritable \in DiskStates :
      \E r \in {generate_classic_content(ForAll(Len(get_classic_papers), ServiceUp),
                                         today, gen_dir, unwritable)} :
        BlogGenerated("generate_classic_content", r)

\* python blog_automation.py --mode recent --max-results n
GenerateRecentContent ==
    \E fetched \in FetchedResults, max_papers \in 1..3, unwritable \in DiskStates :
      \E r \in {generate_recent_content(fetched, max_papers,
                                        ForAll(Len(fetched), ServiceUp),
                                        today, gen_dir, unwritable)} :
        BlogGenerated("generate_recent_content", r)

\* python blog_automation.py --mode search --query q
SearchAndGenerate ==
    \E fetched \in FetchedResults, unwritable \in DiskStates :
      \E r \in {search_and_generate(fetched, ForAll(Len(fetched), ServiceUp),
                                    today, gen_dir, unwritable)} :
        BlogGenerated("search_and_generate", r)

\* python blog_automation.py --mode sample --paper-id id
CreateSampleArticle ==
    \E paper_id \in {get_classic_papers[1].id, Live1}, unwritable \in DiskStates :
      \E r \in {create_sample_article(paper_id, ServiceUp, today, gen_dir, unwritable)} :
        BlogGenerated("create_sample_article", r)

\* python blog_automation.py --mode integrate
IntegrateAllContent ==
    \E listing \in Orderings(DOMAIN gen_dir) :
      \E r \in {integrate_all_content(corpus, gen_dir, listing)} :
        /\ corpus' = r.file
        /\ call' = call
        /\ ret' = [op |-> "integrate_all_content", generated |-> PaperIdsOf(r.articles), exit |-> 0]
        /\ UNCHANGED <<today, gen_dir, art_dir>>

\* python blog_automation.py --mode full
FullAutomation ==
    \E fetched \in FetchedResults, unwritable \in DiskStates :
      \E g \in {full_automation_generate(TRUE, fetched, ServiceUp, today, gen_dir,
                                         unwritable)} :
        \E listing \in Orderings(DOMAIN g.dir) :
          \E r \in {full_automation(g, corpus, listing)} :
            /\ corpus' = r.file
            /\ gen_dir' = r.dir
            /\ call' = call
            /\ ret' = [op |-> "full_automation", generated |-> PaperIdsOf(r.articles),
                       exit |-> IF r.aborted THEN 1 ELSE 0]
            /\ UNCHANGED <<today, art_dir>>

Next ==
    \/ Tick
    \/ RunDailyUpdate
    \/ GenerateClassicContent
    \/ GenerateRecentContent
    \/ SearchAndGenerate
    \/ CreateSampleArticle
    \/ IntegrateAllContent
    \/ FullAutomation

Spec == Init /\ [][Next]_vars

----------------------------------------------------------------------------
(* The stand-alone tools: ArticleGenerator.generate_multiple_articles fills
   the directory articles/ and main() of content_manager.py integrates it *)

ManagerBatches ==
    UNION {[1..n -> {EnhancedPaper(id, 0) : id \in LiveIds}] : n \in 1..Cardinality(LiveIds)}

\* generator.generate_multiple_articles(papers)
GenerateMultipleArticles ==
    \E papers \in ManagerBatches, unwritable \in DiskStates :
      \E r \in {generate_multiple_articles(papers, ForAll(Len(papers), ServiceUp), today,
                                           art_dir, unwritable)} :
        /\ art_dir' = r.dir
        /\ call' = call
        /\ ret' = [op |-> "generate_multiple_articles", generated |-> PaperIdsOf(r.articles), exit |-> IF r.aborted THEN 1 ELSE 0]
        /\ UNCHANGED <<today, corpus, gen_dir>>

\* python content_manager.py
ContentManagerMain ==
    \E listing \in Orderings(DOMAIN art_dir) :
      \E r \in {content_manager_main(corpus, art_dir, listing)} :
        /\ corpus' = r.file
        /\ call' = call
        /\ ret' = [op |-> "content_manager_main", generated |-> PaperIdsOf(r.articles), exit |-> 0]
        /\ UNCHANGED <<today, gen_dir, art_dir>>

NextManager ==
    \/ Tick
    \/ GenerateMultipleArticles
    \/ ContentManagerMain

SpecManager == Init /\ [][NextManager]_vars

----------------------------------------------------------------------------
(* One batch through each generation loop, the service failing on any subset
   of the requests of an article *)

\* a paper dictionary without the key 'title'
UntitledPaper(id) ==
    [id |-> id, authors |-> <<"A. Author">>,
     summary |-> LiveAbstract(id), published |-> "2026-12-30T09:00:00+00:00",
     categories |-> <<"cs.LG">>, relevance_score |-> 0,
     category |-> "foundation-models"]

PaperKinds == {EnhancedPaper(Live1, 1), ParsedPaper(Live2), UntitledPaper(Live2)}

Batches == UNION {[1..n -> PaperKinds] : n \in 0..MaxBatch}

\* the papers of the batch are as ArxivFetcher returns them
IsFetched(papers) == \A i \in DOMAIN papers : papers[i] \in {ParsedPaper(id) : id \in LiveIds}

InitBatch ==
    /\ today = 0
    /\ corpus = NoFile
    /\ gen_dir = EmptyDir
    /\ art_dir = EmptyDir
    /\ \E papers \in Batches, fails \in SUBSET StepSet, err \in ServiceErrors,
          unwritable \in DiskStates :
            /\ fails = {} => err = Timeout
            /\ call = [op |-> "batch", papers |-> papers, fails |-> fails, err |-> err,
                       unwritable |-> unwritable]
    /\ ret = NoCall

BatchService == ForAll(Len(call.papers), Service(call.fails, call.err))

BatchReturned(op, r) ==
    /\ ret' = [op |-> op, articles |-> r.articles, requests |-> r.requests,
               aborted |-> r.aborted]
    /\ UNCHANGED <<today, corpus, call>>

\* generator.generate_multiple_articles(papers)
BatchGenerateMultipleArticles ==
    /\ call.op = "batch" /\ ret = NoCall
    /\ \E r \in {generate_multiple_articles(call.papers, BatchService, today, art_dir,
                                            call.unwritable)} :
        /\ art_dir' = r.dir
        /\ BatchReturned("generate_multiple_articles", r)
        /\ UNCHANGED gen_dir

\* generate_articles_for_papers(papers) and save_generated_articles of its
\* result, as run_daily_update calls them
BatchGenerateArticlesForPapers ==
    /\ call.op = "batch" /\ ret = NoCall
    /\ \E g \in {generate_articles_for_papers(call.papers, BatchService, today)} :
        \E saved \in {IF g.aborted THEN [dir |-> gen_dir, raised |-> FALSE]
                      ELSE save_generated_articles(g.articles, gen_dir, call.unwritable)} :
            /\ gen_dir' = saved.dir
            /\ BatchReturned("generate_articles_for_papers",
                             [g EXCEPT !.aborted = g.aborted \/ saved.raised])
            /\ UNCHANGED art_dir

BatchBlogLoop(op, r) ==
    /\ gen_dir' = r.dir
    /\ BatchReturned(op, r)
    /\ UNCHANGED art_dir

\* generate_classic_content()
BatchGenerateClassicContent ==
    /\ call.op = "batch" /\ ret = NoCall
    /\ call.papers = <<>>
    /\ \E r \in {generate_classic_content(
                    ForAll(Len(get_classic_papers), Service(call.fails, call.err)),
                    today, gen_dir, call.unwritable)} :
        BatchBlogLoop("generate_classic_content", r)

\* generate_recent_content(), the fetcher returning the batch
BatchGenerateRecentContent ==
    /\ call.op = "batch" /\ ret = NoCall
    /\ IsFetched(call.papers)
    /\ \E r \in {generate_recent_content(call.papers, 5, BatchService, today, gen_dir,
                                         call.unwritable)} :
        BatchBlogLoop("generate_recent_content", r)

\* search_and_generate(query), the fetcher returning the batch
BatchSearchAndGenerate ==
    /\ call.op = "batch" /\ ret = NoCall
    /\ IsFetched(call.papers)
    /\ \E r \in {search_and_generate(call.papers, BatchService, today, gen_dir,
                                     call.unwritable)} :
        BatchBlogLoop("search_and_generate", r)

NextBatch ==
    \/ BatchGenerateMultipleArticles
    \/ BatchGenerateArticlesForPapers
    \/ BatchGenerateClassicContent
    \/ BatchGenerateRecentContent
    \/ BatchSearchAndGenerate

SpecBatch == InitBatch /\ [][NextBatch]_vars

----------------------------------------------------------------------------
(* The selection step of the daily run on any candidates, any articles.json
   and any value of self.max_daily_articles *)

\* five unseen papers with two equal top scores
TiedCandidates ==
    <<EnhancedPaper(<<"2", "6", "1", "2", ".", "5", "v", "1">>, 3),
      EnhancedPaper(<<"2", "6", "1", "2", ".", "6", "v", "1">>, 9),
      EnhancedPaper(<<"2", "6", "1", "2", ".", "7", "v", "1">>, 1),
      EnhancedPaper(<<"2", "6", "1", "2", ".", "8", "v", "1">>, 9),
      EnhancedPaper(<<"2", "6", "1", "2", ".", "9", "v", "1">>, 5)>>

\* candidate lists in any order, ids repeated or not
Candidates ==
    UNION {[1..n -> {EnhancedPaper(id, sc) : id \in LiveIds, sc \in 0..MaxScore}] :
            n \in 0..MaxCand}
    \cup {TiedCandidates}

\* contents of articles.json whose entries name their paper by either key
\* that get_existing_paper_ids reads
ExistingFiles ==
    LET ByPaperId == [paper_id |-> Live1]
        ByUrl == [url |-> <<"h", "t", "t", "p", ":", "/", "/">> \o ArxivOrgAbs \o Live2]
    IN  {NoFile, Malformed, JsonFile(<<ByPaperId>>), JsonFile(<<ByUrl>>),
         JsonFile(<<ByUrl, ByPaperId>>)}

InitSelect ==
    /\ today = 0
    /\ corpus \in ExistingFiles
    /\ gen_dir = EmptyDir
    /\ art_dir = EmptyDir
    /\ \E candidates \in Candidates, limit \in 0..MaxLimit :
        call = [op |-> "select", candidates |-> candidates, limit |-> limit]
    /\ ret = NoCall

\* find_new_papers() of an instance whose max_daily_articles is call.limit,
\* search_recent_papers returning call.candidates
FindNewPapers ==
    /\ call.op = "select" /\ ret = NoCall
    /\ \E existing_ids \in {get_existing_paper_ids(load_existing_articles(corpus))} :
        ret' = [op |-> "find_new_papers",
                existing_ids |-> existing_ids,
                selected |-> select_new_papers(call.candidates, existing_ids, call.limit)]
    /\ UNCHANGED <<today, corpus, gen_dir, art_dir, call>>

NextSelect == FindNewPapers

SpecSelect == InitSelect /\ [][NextSelect]_vars

----------------------------------------------------------------------------
(* One call of generate_article, on any kind of paper with the service
   failing on any of its requests, and on a complete paper with generated
   texts of any of a few lengths *)

\* a text of n words
Words(n) == [i \in 1..(2 * n - 1) |-> IF i % 2 = 1 THEN "w" ELSE " "]

\* the requests whose replies the read time counts
ContentSteps == {"background", "methodology", "results", "significance", "explanation"}

\* the numbers of words of a reply: none, one, and lengths whose sums reach
\* the minutes 1.5 and 2.5
ReplyLengths == {0, 1, 60, 100}

\* the service answering the five content requests with texts of the given
\* numbers of words
ServiceOfLengths(words) ==
    [step \in StepSet |->
        IF step \in ContentSteps THEN [ok |-> TRUE, text |-> Words(words[step])]
        ELSE [ok |-> TRUE, text |-> SampleReply(step)]]

\* the papers of every source: the seed list, a parsed entry of ArxivFetcher,
\* a result of EnhancedArxivFetcher, and a paper without title
ArticlePapers ==
    Range(get_classic_papers)
    \cup {EnhancedPaper(Live1, 1), ParsedPaper(Live2), UntitledPaper(Live2)}

InitArticle ==
    /\ today \in 0..MaxDay
    /\ corpus = NoFile
    /\ gen_dir = EmptyDir
    /\ art_dir = EmptyDir
    /\ \/ \E words \in [ContentSteps -> ReplyLengths] :
            call = [op |-> "generate_article", paper |-> EnhancedPaper(Live1, 1),
                    resp |-> ServiceOfLengths(words)]
       \/ \E paper \in ArticlePapers, fails \in SUBSET StepSet :
            call = [op |-> "generate_article", paper |-> paper,
                    resp |-> Service(fails, Timeout)]
    /\ ret = NoCall

\* ArticleGenerator.generate_article(call.paper)
GenerateArticle ==
    /\ call.op = "generate_article" /\ ret = NoCall
    /\ \E g \in {generate_article(call.paper, call.resp, today)} :
        ret' = [op |-> "generate_article",
                raised |-> g.raised,
                requests |-> g.requests,
                article |-> IF g.raised THEN None ELSE g.article]
    /\ UNCHANGED <<today, corpus, gen_dir, art_dir, call>>

NextArticle == GenerateArticle

SpecArticle == InitArticle /\ [][NextArticle]_vars

----------------------------------------------------------------------------
(* The derivations of a corpus entry: the id from an article title, and the
   category slug from the display name the generator gave the article *)

\* the ASCII characters of the titles: letters of both cases, an underscore,
\* a space, a hyphen, a punctuation mark and a carriage return
AsciiTitleChars == {"A", "b", "_", " ", "-", "!", "\r"}

\* the characters of the titles: the ASCII ones and four letters beyond
\* ASCII: E with acute, the sigma whose lower-case form depends on its place,
\* the dotted I whose lower-case form is two characters, and the upper-case
\* letter that has no lower-case form
TitleChars == AsciiTitleChars \cup {"U+00C9", CapitalSigma, CapitalIDot, DoubleStruckR}

PaperTitles ==
    UNION {[1..n -> AsciiTitleChars] : n \in 0..MaxTitle}
    \cup UNION {[1..n -> TitleChars] : n \in 0..MaxUnicodeTitle}

\* the category slugs a paper can carry: those of category_map, and others
CategorySlugs == category_map_slugs \cup {"ai-applications", "computer-vision", ""}

InitEntry ==
    /\ today = 0
    /\ corpus = NoFile
    /\ gen_dir = EmptyDir
    /\ art_dir = EmptyDir
    /\ \/ \E T \in PaperTitles :
            \E title \in {T, PaperExplained \o T, PaperExplained \o T \o GuideSuffix} :
                call = [op |-> "create_article_id", paper_title |-> T, title |-> title]
       \/ \E slug \in CategorySlugs :
            call = [op |-> "category", category_slug |-> slug]
    /\ ret = NoCall

\* _create_article_id(call.title), twice, and _create_article_id of its result
CreateArticleId ==
    /\ call.op = "create_article_id" /\ ret = NoCall
    /\ \E id \in {create_article_id(call.title)} :
        ret' = [op |-> "create_article_id",
                id |-> id,
                second |-> create_article_id(call.title),
                id_of_id |-> create_article_id(id)]
    /\ UNCHANGED <<today, corpus, gen_dir, art_dir, call>>

\* _format_category(call.category_slug) in generate_article, then
\* _get_category_slug of the article's category in integrate_articles
CategoryRoundTrip ==
    /\ call.op = "category" /\ ret = NoCall
    /\ \E category \in {format_category(call.category_slug)} :
        ret' = [op |-> "category",
                category |-> category,
                categorySlug |-> get_category_slug(category)]
    /\ UNCHANGED <<today, corpus, gen_dir, art_dir, call>>

NextEntry ==
    \/ CreateArticleId
    \/ CategoryRoundTrip

SpecEntry == InitEntry /\ [][NextEntry]_vars

----------------------------------------------------------------------------
(* The corpus file written and read back: an article whose background the
   service wrote is integrated by ContentManager.integrate_articles, and
   articles.json is then loaded by DailyAutomation.load_existing_articles *)

\* the characters of the background texts: a letter, the parts of a sentence
\* end, the characters JSON escapes, and the letter of the newline escape
BackgroundChars == {"a", ".", " ", "\"", "\\", "\n", "n", "\r", "u", Backspace, "U+001F"}

\* n letters
Filler(n) == [i \in 1..n |-> "a"]

\* the replies of the service to the background request: every short text,
\* and texts around the length at which the excerpt is cut
Backgrounds ==
    UNION {[1..n -> BackgroundChars] : n \in 0..MaxBackground}
    \cup {Filler(ExcerptLength), Filler(ExcerptLength + 1),
          Filler(ExcerptLength) \o SentenceEnd \o Filler(ExcerptLength)}

\* the service answering the background request with `text`
ServiceOfBackground(text) ==
    [step \in StepSet |->
        [ok |-> TRUE, text |-> IF step = "background" THEN text ELSE SampleReply(step)]]

InitCorpus ==
    /\ today \in 0..MaxDay
    /\ corpus = NoFile
    /\ gen_dir = EmptyDir
    /\ art_dir = EmptyDir
    /\ \E text \in Backgrounds : call = [op |-> "integrate_articles", background |-> text]
    /\ ret = NoCall

\* ContentManager.integrate_articles([article]) on the article generated
\* with call.background
CorpusIntegrateArticles ==
    /\ ret = NoCall
    /\ \E g \in {generate_article(EnhancedPaper(Live1, 1),
                                  ServiceOfBackground(call.background), today)} :
        \E articles_data \in {integrate_articles(<<g.article>>)} :
            /\ corpus' = TextFile(json_dump(articles_data))
            /\ ret' = [op |-> "integrate_articles",
                       background |-> g.article.content.background,
                       articles_data |-> articles_data]
    /\ UNCHANGED <<today, gen_dir, art_dir, call>>

\* DailyAutomation.load_existing_articles()
CorpusLoadExistingArticles ==
    /\ ret.op = "integrate_articles"
    /\ ret' = [op |-> "load_existing_articles",
               background |-> ret.background,
               articles_data |-> ret.articles_data,
               loaded |-> load_existing_articles(ParsedFile(corpus))]
    /\ UNCHANGED <<today, corpus, gen_dir, art_dir, call>>

NextCorpus ==
    \/ CorpusIntegrateArticles
    \/ CorpusLoadExistingArticles

SpecCorpus == InitCorpus /\ [][NextCorpus]_vars

----------------------------------------------------------------------------
(* One call of _calculate_relevance_score, on results of any categories,
   titles and abstracts with and without keywords, abstracts around the two
   length thresholds, and ages around the three recency thresholds *)

CategoryLists ==
    {<<>>, <<"cs.LG">>, <<"cs.NE">>, <<"math.CO">>, <<"cs.CV", "cs.LG", "stat.ML">>,
     <<"cs.IR", "cs.RO", "cs.AI">>}

ScoredTitles ==
    {<<"D", "e", "e", "p", " ", "N", "e", "t", "s">>,
     <<"A", "t", "t", "e", "n", "t", "i", "o", "n">>,
     <<"V", "i", "s", "i", "o", "n", " ", "T", "r", "a", "n", "s", "f", "o", "r", "m", "e", "r">>}

ScoredSummaries ==
    {<<"W", "e", " ", "t", "r", "a", "i", "n", ".">>,
     <<"A", "t", "t", "e", "n", "t", "i", "o", "n", " ", "a", "n", "d", " ",
       "d", "i", "f", "f", "u", "s", "i", "o", "n">>,
     Filler(500), Filler(501), Filler(1000), Filler(1001)}

\* the ages in days at the time of scoring
Ages == {0, 1, 2, 7, 8, 30, 31}

InitScore ==
    /\ today \in 0..MaxDay
    /\ corpus = NoFile
    /\ gen_dir = EmptyDir
    /\ art_dir = EmptyDir
    /\ \E categories \in CategoryLists, title \in ScoredTitles,
          summary \in ScoredSummaries, age \in Ages :
            call = [op |-> "calculate_relevance_score",
                    result |-> RawResult(Live1, title, summary, today - age, categories)]
    /\ ret = NoCall

\* _calculate_relevance_score(call.result) today, and again a day later
CalculateRelevanceScore ==
    /\ call.op = "calculate_relevance_score" /\ ret = NoCall
    /\ ret' = [op |-> "calculate_relevance_score",
               score |-> calculate_relevance_score(call.result, today),
               next_day |-> calculate_relevance_score(call.result, today + 1)]
    /\ UNCHANGED <<today, corpus, gen_dir, art_dir, call>>

NextScore == CalculateRelevanceScore

SpecScore == InitScore /\ [][NextScore]_vars

----------------------------------------------------------------------------
(* The paper sources: one daily run on what the three queries of
   search_recent_papers met, and one run of the recent mode on what the four
   requests of get_recent_papers met *)

Live3 == <<"2", "6", "1", "2", ".", "3", "v", "1">>
Live4 == <<"2", "6", "1", "2", ".", "4", "v", "1">>

\* results of the arxiv library: two recent papers of relevant categories, a
\* paper published before the window and a paper of no relevant category
Raw1 == RawResult(Live1, LiveTitle(Live1), LiveAbstract(Live1), -1, <<"cs.LG">>)
Raw2 == RawResult(Live2, LiveTitle(Live2), LiveAbstract(Live2), 0, <<"cs.RO", "cs.AI">>)
RawOld == RawResult(Live3, LiveTitle(Live1), LiveAbstract(Live1), -10, <<"cs.CV">>)
RawOff == RawResult(Live4, LiveTitle(Live2), LiveAbstract(Live2), -1, <<"math.CO">>)

\* what one query meets: the results search.results() yields, and whether
\* it then raises
QueryOutcomes ==
    [results : {<<>>, <<Raw1>>, <<Raw2>>, <<Raw1, Raw2>>, <<RawOld, Raw1>>, <<RawOff>>},
     raised : BOOLEAN]

\* an entry without its <summary> element
BrokenEntry ==
    [title |-> LiveTitle(Live1), published |-> strftime(-1),
     id |-> ArxivAbs \o Live3, authors |-> <<>>, categories |-> <<>>]

\* what one request of search_papers meets: a feed of entries, or an
\* exception (no connection, an error status, a body that is not XML)
HttpResponses ==
    [entries : {<<>>, <<AtomEntry(Live1, -1, <<"cs.LG">>)>>,
                <<BrokenEntry, AtomEntry(Live2, 0, <<"cs.HC", "cs.CL">>)>>},
     raised : BOOLEAN]

InitSource ==
    /\ today \in 0..MaxDay
    /\ corpus \in {NoFile, Malformed}
    /\ gen_dir = EmptyDir
    /\ art_dir = EmptyDir
    /\ \/ \E outcomes \in [1..3 -> QueryOutcomes] :
            call = [op |-> "search_recent_papers", outcomes |-> outcomes]
       \/ \E responses \in [1..4 -> HttpResponses] :
            call = [op |-> "get_recent_papers", responses |-> responses]
    /\ ret = NoCall

\* python daily_automation.py, the queries of search_recent_papers meeting
\* call.outcomes
SourceRunDailyUpdate ==
    /\ call.op = "search_recent_papers" /\ ret = NoCall
    /\ \E recent_papers \in {search_recent_papers(call.outcomes, 20, 7, today)} :
        \E r \in {run_daily_update(corpus, gen_dir, recent_papers,
                                   ForAll(Len(recent_papers), ServiceUp), {}, today)} :
            /\ corpus' = r.file
            /\ gen_dir' = r.dir
            /\ ret' = [op |-> "run_daily_update",
                       candidates |-> recent_papers,
                       generated |-> PaperIdsOf(r.articles),
                       requests |-> Len(r.requests),
                       printed |-> r.printed,
                       exit |-> r.exit]
    /\ UNCHANGED <<today, art_dir, call>>

\* python blog_automation.py --mode recent, the requests of
\* get_recent_papers meeting call.responses
SourceGenerateRecentContent ==
    /\ call.op = "get_recent_papers" /\ ret = NoCall
    /\ \E papers \in {get_recent_papers(call.responses)} :
        \E r \in {generate_recent_content(papers, 5, ForAll(Len(papers), ServiceUp),
                                          today, gen_dir, {})} :
            /\ gen_dir' = r.dir
            /\ ret' = [op |-> "generate_recent_content",
                       candidates |-> papers,
                       generated |-> PaperIdsOf(r.articles),
                       requests |-> Len(r.requests),
                       printed |-> <<>>,
                       exit |-> IF r.aborted THEN 1 ELSE 0]
    /\ UNCHANGED <<today, corpus, art_dir, call>>

NextSource ==
    \/ SourceRunDailyUpdate
    \/ SourceGenerateRecentContent

SpecSource == InitSource /\ [][NextSource]_vars

----------------------------------------------------------------------------
(* One call of search_recent_papers with any max_results and days_back *)

\* Raw1 as a later query yields it once the paper was cross-listed: the same
\* id, one more category
Raw1Cross == RawResult(Live1, LiveTitle(Live1), LiveAbstract(Live1), -1, <<"cs.LG", "cs.CV">>)

SearchOutcomes ==
    [results : {<<>>, <<Raw1>>, <<Raw2, Raw1Cross>>, <<Raw1, Raw2>>, <<RawOld, Raw1>>,
                <<RawOff, Raw2>>},
     raised : BOOLEAN]

DaysBack == {0, 1, 7}

InitSearch ==
    /\ today \in 0..MaxDay
    /\ corpus = NoFile
    /\ gen_dir = EmptyDir
    /\ art_dir = EmptyDir
    /\ \E outcomes \in [1..3 -> SearchOutcomes], max_results \in 0..MaxLimit,
          days_back \in DaysBack :
            call = [op |-> "search_recent_papers", outcomes |-> outcomes,
                    max_results |-> max_results, days_back |-> days_back]
    /\ ret = NoCall

\* search_recent_papers(query, call.max_results, call.days_back)
SearchRecentPapers ==
    /\ call.op = "search_recent_papers" /\ ret = NoCall
    /\ ret' = [op |-> "search_recent_papers",
               papers |-> search_recent_papers(call.outcomes, call.max_results,
                                               call.days_back, today)]
    /\ UNCHANGED <<today, corpus, gen_dir, art_dir, call>>

NextSearch == SearchRecentPapers

SpecSearch == InitSearch /\ [][NextSearch]_vars

----------------------------------------------------------------------------
(* Recent-window mode with any days and max_papers, on feeds that hold
   papers of any age *)

\* what one request of search_papers meets: the query names a category and
\* no date, so the feed holds papers of any age
RecentResponses ==
    [entries : {<<>>, <<AtomEntry(Live1, -1, <<"cs.LG">>)>>,
                <<AtomEntry(Live3, -10, <<"cs.CV">>), AtomEntry(Live2, 0, <<"cs.CL">>)>>},
     raised : BOOLEAN]

RecentDays == {1, 7}

InitRecent ==
    /\ today \in 0..MaxDay
    /\ corpus = NoFile
    /\ gen_dir = EmptyDir
    /\ art_dir = EmptyDir
    /\ \E responses \in [1..4 -> RecentResponses], days \in RecentDays,
          max_papers \in (-1)..MaxLimit :
            call = [op |-> "generate_recent_content", responses |-> responses,
                    days |-> days, max_papers |-> max_papers]
    /\ ret = NoCall

\* python blog_automation.py --mode recent: generate_recent_content(call.days,
\* call.max_papers); `processed` is the list the loop runs over
RecentGenerateRecentContent ==
    /\ call.op = "generate_recent_content" /\ ret = NoCall
    /\ \E fetched \in {get_recent_papers(call.responses)} :
        \E r \in {generate_recent_content(fetched, call.max_papers,
                                          ForAll(Len(fetched), ServiceUp),
                                          today, gen_dir, {})} :
            /\ gen_dir' = r.dir
            /\ ret' = [op |-> "generate_recent_content",
                       processed |-> SliceTo(fetched, call.max_papers),
                       generated |-> PaperIdsOf(r.articles)]
    /\ UNCHANGED <<today, corpus, art_dir, call>>

NextRecent == RecentGenerateRecentContent

SpecRecent == InitRecent /\ [][NextRecent]_vars

----------------------------------------------------------------------------
(* Properties of the selection step (SpecSelect) *)

NonIncreasingScore(papers) ==
    \A i, j \in DOMAIN papers :
        i < j => RelevanceScore(papers[i]) >= RelevanceScore(papers[j])

\* C1: find_new_papers never returns a paper whose id is in the existing set,
\* returns at most max_daily_articles papers, and returns them ordered by
\* non-increasing relevance score
C1_SelectionContract ==
    ret.op = "find_new_papers" =>
        /\ \A i \in DOMAIN ret.selected : ret.selected[i].id \notin ret.existing_ids
        /\ Len(ret.selected) <= call.limit
        /\ NonIncreasingScore(ret.selected)

\* a selection with the default limit that dropped a known paper, cut the
\* list, and reordered the candidates
C1_Witness ==
    /\ ret.op = "find_new_papers"
    /\ call.limit = max_daily_articles
    /\ Len(ret.selected) = call.limit
    /\ \E i \in DOMAIN call.candidates : call.candidates[i].id \in ret.existing_ids
    /\ Len(filter_new(call.candidates, ret.existing_ids)) > call.limit
    /\ ~NonIncreasingScore(call.candidates)

\* the place of unseen[i] in a stable descending order by score: after the
\* papers of a higher score and after the earlier papers of the same score
StableRank(unseen, i) ==
    1 + Cardinality({j \in DOMAIN unseen :
            \/ RelevanceScore(unseen[j]) > RelevanceScore(unseen[i])
            \/ RelevanceScore(unseen[j]) = RelevanceScore(unseen[i]) /\ j < i})

\* C12: selection is stable: among the unseen candidates of equal relevance
\* score the one earlier in the input is placed first, so the k-th selected
\* paper is the unseen candidate that k - 1 others precede by a higher score
\* or by an equal score and an earlier position
C12_StableSelection ==
    ret.op = "find_new_papers" =>
        \A unseen \in {filter_new(call.candidates, ret.existing_ids)} :
            /\ Len(ret.selected) = Min(call.limit, Len(unseen))
            /\ \A i \in DOMAIN unseen :
                    StableRank(unseen, i) <= Len(ret.selected) =>
                        ret.selected[StableRank(unseen, i)] = unseen[i]

\* five unseen papers of scores 3, 9, 1, 9, 5 under the limit 2: the second,
\* then the fourth
C12_Witness ==
    /\ ret.op = "find_new_papers"
    /\ call.candidates = TiedCandidates
    /\ call.limit = 2
    /\ ret.existing_ids \cap {TiedCandidates[i].id : i \in 1..5} = {}
    /\ ret.selected = <<TiedCandidates[2], TiedCandidates[4]>>

\* the number of times paper occurs in seq
Occurrences(seq, paper) == Cardinality({i \in DOMAIN seq : seq[i] = paper})

\* C22: the relevance score orders and truncates, it never rejects: the
\* selection returns min(limit, number of unseen candidates) papers, and all
\* the unseen candidates when they are at most the limit
C22_ScoreNeverRejects ==
    ret.op = "find_new_papers" =>
        \A unseen \in {filter_new(call.candidates, ret.existing_ids)} :
            /\ Len(ret.selected) = Min(call.limit, Len(unseen))
            /\ Len(unseen) <= call.limit =>
                    \A i \in DOMAIN unseen :
                        Occurrences(ret.selected, unseen[i]) = Occurrences(unseen, unseen[i])

\* two unseen candidates of score 0 next to a known one, under the limit 2:
\* both returned
C22_Witness ==
    /\ ret.op = "find_new_papers"
    /\ call.limit = 2
    /\ Len(call.candidates) = 3
    /\ \E i \in DOMAIN call.candidates : call.candidates[i].id \in ret.existing_ids
    /\ Len(ret.selected) = 2
    /\ \A i \in DOMAIN ret.selected : RelevanceScore(ret.selected[i]) = 0

----------------------------------------------------------------------------
(* Properties of the pipeline (Spec) *)

\* C2: once an article for paper P is in the persisted corpus, a daily run
\* that reloads the corpus has P in its existing-id set and does not select
\* P again (a daily run leaves articles.json as it found it, so the corpus
\* of the state is the corpus the run loaded)
C2_NeverReselected ==
    ret.op = "run_daily_update" =>
        /\ CorpusPaperIds(corpus) \subseteq ret.existing_ids
        /\ \A i \in DOMAIN ret.selected : ret.selected[i] \notin CorpusPaperIds(corpus)

\* C3: every step of the pipeline leaves in the corpus every entry that was
\* in it, unchanged
C3_IntegrationOnlyAppends ==
    [][\A i \in DOMAIN corpus.value :
        \E j \in DOMAIN corpus'.value : corpus'.value[j] = corpus.value[i]]_vars

\* C7: no two entries of the persisted corpus have the same id
C7_UniqueIds ==
    \A i, j \in DOMAIN corpus.value :
        i # j => corpus.value[i].id # corpus.value[j].id

\* C10: a step of the pipeline that finds articles.json unparseable leaves
\* it as it is
C10_MalformedCorpusKept ==
    [][corpus = Malformed => corpus' = Malformed]_vars

----------------------------------------------------------------------------
(* Properties of the stand-alone tools (SpecManager) *)

\* C6: every persisted corpus is ordered by non-increasing publishDate
C6_SortedByPublishDate ==
    \A i, j \in DOMAIN corpus.value :
        i < j => ~StrLess(corpus.value[i].publishDate, corpus.value[j].publishDate)

----------------------------------------------------------------------------
(* Properties of the generation loops (SpecBatch) *)

\* the paper has every field generate_article reads
IsComplete(paper) ==
    {"title", "summary", "published", "category", "authors", "id"} \subseteq DOMAIN paper

\* the field of the article that the request of template `step` fills
FieldOf(article, step) ==
    CASE step \in DOMAIN article.content -> article.content[step]
      [] step = "concept" -> article.concept_explained
      [] step = "explanation" -> article.concept_explanation.content
      [] step = "summary" -> article.summary
      [] OTHER -> article.subtitle

ArticleKeys ==
    {"title", "subtitle", "category", "authors", "paper_url", "read_time", "publish_date",
     "concept_explained", "content", "concept_explanation", "summary"}

\* the article without what generate_articles_for_papers adds to it
Core(article) == [k \in ArticleKeys |-> article[k]]

\* the text is an error placeholder that carries the exception's text
IsPlaceholder(text, err) ==
    /\ MatchAt(text, Strip(ErrorPrefix), 1)
    /\ Contains(text, Strip(err))

\* the papers the loop of the state went through, and the directory it wrote
LoopPapers ==
    IF ret.op = "generate_classic_content" THEN get_classic_papers ELSE call.papers

LoopDir == IF ret.op = "generate_multiple_articles" THEN art_dir ELSE gen_dir

RequestsFor(i) == {q \in DOMAIN ret.requests : ret.requests[q].paper = i}

\* C4: in a loop that ran to its end on a writable disk, whatever requests
\* the service failed, generate_article raised for no paper that has all
\* required fields: the loop returned its complete article, each field whose
\* request failed holds a placeholder with the error's text, and the article
\* is in a file of the output directory
C4_DegradeNotAbort ==
    (ret.op # "none" /\ ~ret.aborted /\ call.unwritable = {}) =>
        \A i \in DOMAIN LoopPapers : IsComplete(LoopPapers[i]) =>
            /\ Cardinality(RequestsFor(i)) = Len(Steps)
            /\ \E k \in DOMAIN ret.articles :
                /\ ret.articles[k].paper_url = ArxivAbs \o LoopPapers[i].id
                /\ ArticleKeys \subseteq DOMAIN ret.articles[k]
                /\ \A step \in call.fails :
                    IsPlaceholder(FieldOf(ret.articles[k], step), call.err)
                /\ \A step \in StepSet \ call.fails :
                    FieldOf(ret.articles[k], step) = Strip(SampleReply(step))
                /\ \E name \in DOMAIN LoopDir : LoopDir[name] = ret.articles[k]

\* a batch of a complete paper and a paper generate_article raises for, some
\* but not all requests failing with an error whose text ends in a blank: the
\* complete paper's article was returned and written
C4_Witness ==
    /\ ret.op = "generate_multiple_articles"
    /\ ~ret.aborted /\ call.unwritable = {}
    /\ {"concept", "summary", "results"} \subseteq call.fails
    /\ "background" \notin call.fails
    /\ call.err # Strip(call.err)
    /\ \E i, j \in DOMAIN call.papers :
        IsComplete(call.papers[i]) /\ ~IsComplete(call.papers[j])
    /\ Len(ret.articles) = 1
    /\ DOMAIN art_dir # {}

\* C5: when the request of one step alone fails, the fields the other steps
\* fill, and the prompts sent for the other steps, are those of the run in
\* which every request succeeds
C5_SectionIsolation ==
    (ret.op = "generate_multiple_articles" /\ Cardinality(call.fails) = 1) =>
        \A i \in DOMAIN call.papers : IsComplete(call.papers[i]) =>
            \A ok \in {generate_article(call.papers[i], ServiceUp, today)} :
                /\ \A k \in DOMAIN ret.articles, step \in StepSet \ call.fails :
                    ret.articles[k].paper_url = ok.article.paper_url
                        => FieldOf(ret.articles[k], step) = FieldOf(ok.article, step)
                /\ \A q \in RequestsFor(i) :
                    ret.requests[q].prompt.template \notin call.fails
                        => ret.requests[q].prompt \in Range(ok.requests)

\* the articles of the papers generate_article does not raise for, in order
ArticlesOfNonRaising(papers, svc, now) ==
    LET F[i \in 0..Len(papers)] ==
            IF i = 0 THEN <<>>
            ELSE \* one evaluation of generate_article per paper
                 Only({IF g.raised THEN F[i - 1] ELSE F[i - 1] \o <<g.article>> :
                        g \in {generate_article(papers[i], svc, now)}})
    IN  F[Len(papers)]

\* C9: a generation loop returns exactly the articles of the papers that
\* generate_article did not raise for, in input order
C9_SkipAndContinue ==
    ret.op # "none" =>
        [k \in DOMAIN ret.articles |-> Core(ret.articles[k])]
            = ArticlesOfNonRaising(LoopPapers, Service(call.fails, call.err), today)

----------------------------------------------------------------------------
(* Properties of the paper sources (SpecSource) *)

\* the paper source failed on every query of the run
SourceFailed ==
    \/ /\ call.op = "search_recent_papers"
       /\ \A q \in DOMAIN call.outcomes : call.outcomes[q].raised
    \/ /\ call.op = "get_recent_papers"
       /\ \A q \in DOMAIN call.responses : call.responses[q].raised

\* the paper source failed on every query before it yielded a result
SourceUnreachable ==
    /\ SourceFailed
    /\ call.op = "search_recent_papers" =>
        \A q \in DOMAIN call.outcomes : call.outcomes[q].results = <<>>

\* the run found no candidate, sent no request, ended normally and left
\* articles.json as it was
QuietRun ==
    /\ ret'.candidates = <<>>
    /\ ret'.requests = 0
    /\ ret'.exit = 0
    /\ corpus' = corpus

\* C11 as stated: when the paper source fails on every query, the search
\* returns no candidate and the run ends normally, with no generation
\* request and the corpus file unchanged
C11_SourceFailureIsEmpty ==
    [][SourceFailed => QuietRun]_vars

\* C11, amended: when every query of the paper source fails before it yields
\* a result, the search returns no candidate and the run ends normally, with
\* no generation request and the corpus file unchanged
C11_UnreachableSourceIsEmpty ==
    [][SourceUnreachable => QuietRun]_vars

\* a daily run whose three queries all failed at once, on a malformed corpus
\* file: it printed that there is nothing new and sent nothing
C11_Witness ==
    /\ SourceUnreachable
    /\ call.op = "search_recent_papers"
    /\ ret.op = "run_daily_update"
    /\ ret.candidates = <<>> /\ ret.requests = 0 /\ ret.exit = 0
    /\ ret.printed = <<"No new papers found. Exiting.">>
    /\ corpus = Malformed

----------------------------------------------------------------------------
(* Properties of one article (SpecArticle) *)

\* generate_article returned an article
Returned == ret.op = "generate_article" /\ ~ret.raised

\* the five generated texts of the article the read time is about
SectionTexts(article) ==
    <<article.content.background, article.content.methodology,
      article.content.results, article.content.significance,
      article.concept_explanation.content>>

\* the words of the five texts, each text counted on its own
SectionWords(article) ==
    SumSeq([i \in 1..5 |-> WordCount(SectionTexts(article)[i])])

\* "{n} min read"
MinutesText(n) == IntToStr(n) \o MinRead

\* C13: whatever the generated section texts are, all of them empty
\* included, the read time of the article is an integer of at least 1
C13_ReadTimeAtLeastOne ==
    Returned =>
        \E n \in 1..(1 + SectionWords(ret.article)) :
            ret.article.read_time = MinutesText(n)

\* an article whose five texts are all empty: "1 min read"
C13_Witness ==
    /\ Returned
    /\ \A i \in 1..5 : SectionTexts(ret.article)[i] = <<>>
    /\ ret.article.read_time = MinutesText(1)

\* n / d rounded to the nearest integer; at a tie, either neighbour
Nearest(n, d) ==
    {q \in {n \div d, n \div d + 1} : 2 * (d * q - n) <= d /\ 2 * (n - d * q) <= d}

\* C14: the read time is max(1, W/200 rounded to the nearest integer), W
\* being the sum of the word counts of the five generated texts, each
\* counted separately
C14_ReadTimeOfSummedWords ==
    Returned =>
        \E r \in Nearest(SectionWords(ret.article), WordsPerMinute) :
            ret.article.read_time = MinutesText(Max(1, r))

\* the service answers every request of the call
ServiceSucceeds == \A step \in StepSet : call.resp[step].ok

\* C15: for every seed paper of get_classic_papers and a service that always
\* succeeds, generate_article returns an article whose title is
\* "Paper Explained: {title} - A Beginner's Guide" and whose category is the
\* display name of the paper's category slug
C15_SeedPaperGenerates ==
    (/\ ret.op = "generate_article"
     /\ call.paper \in Range(get_classic_papers)
     /\ ServiceSucceeds) =>
        /\ ~ret.raised
        /\ ret.article.title = PaperExplained \o call.paper.title \o GuideSuffix
        /\ ret.article.category = format_category(call.paper.category)

\* the templates of the requests, in the order they were sent
Templates(requests) == [i \in DOMAIN requests |-> requests[i].template]

\* C20: generate_article sends its requests in the order background,
\* methodology, results, significance, concept identification, concept
\* explanation, summary, subtitle, each once and none again after a failure:
\* what it has sent is always a prefix of that list, and the whole list of
\* eight when it returns an article
C20_EightRequestsInOrder ==
    ret.op = "generate_article" =>
        /\ Len(ret.requests) <= Len(Steps)
        /\ Templates(ret.requests) = SubSeq(Steps, 1, Len(ret.requests))
        /\ ~ret.raised => Templates(ret.requests) = Steps

\* an article generated while the service failed on the methodology and the
\* concept requests: eight requests, the failed ones sent once
C20_Witness ==
    /\ Returned
    /\ {step \in StepSet : ~call.resp[step].ok} = {"methodology", "concept"}
    /\ Templates(ret.requests) = Steps

----------------------------------------------------------------------------
(* Properties of the entry derivations (SpecEntry) *)

\* C16: _create_article_id is deterministic and idempotent: two calls on a
\* title give the same id, and the id of an id is the id itself
C16_SlugIdempotent ==
    ret.op = "create_article_id" =>
        /\ ret.second = ret.id
        /\ ret.id_of_id = ret.id

\* a wrapped title whose paper title has upper case, punctuation and runs of
\* separators, all of which the first call changed
C16_Witness ==
    /\ ret.op = "create_article_id"
    /\ call.title = PaperExplained \o <<"-", "A", " ", "!">> \o GuideSuffix
    /\ ret.id = <<"a">>
    /\ ret.second = <<"a">>
    /\ ret.id_of_id = <<"a">>

\* C17: the id derived from "Paper Explained: T - A Beginner's Guide" is the
\* slug of T itself, nothing of T being lost
C17_IdIsSlugOfPaperTitle ==
    (/\ ret.op = "create_article_id"
     /\ call.title = PaperExplained \o call.paper_title \o GuideSuffix) =>
        ret.id = slugify(call.paper_title)

\* C18: on the slugs of the generator's table the two category maps are
\* inverse of each other, and every other slug becomes 'Basic Concepts' and
\* then 'basic-concepts'
C18_CategoryRoundTrip ==
    ret.op = "category" =>
        IF call.category_slug \in category_map_slugs
        THEN ret.categorySlug = call.category_slug
        ELSE ret.category = "Basic Concepts" /\ ret.categorySlug = "basic-concepts"

\* the slug 'optimization' went to 'Optimization' and came back
C18_Witness ==
    /\ ret.op = "category"
    /\ call.category_slug = "optimization"
    /\ ret.category = "Optimization"
    /\ ret.categorySlug = "optimization"

\* C19: every paper of the paper source, of the seed list and of both
\* _map_category, has a category of the generator's table, so that the
\* generator replaces no source-assigned category by the fallback
C19_SourceCategoriesKnown ==
    /\ \A i \in DOMAIN get_classic_papers :
            get_classic_papers[i].category \in category_map_slugs
    /\ ret.op \in {"run_daily_update", "generate_recent_content"} =>
            \A i \in DOMAIN ret.candidates :
                ret.candidates[i].category \in category_map_slugs

----------------------------------------------------------------------------
(* Properties of the order of a batch (SpecBatch) *)

\* C21: the papers of a batch are processed one after the other in the order
\* of the batch: every request sent for a paper, failed or not, comes before
\* every request of a later paper, and carries the data of its own paper
C21_SequentialPapers ==
    ret.op # "none" =>
        /\ \A q, r \in DOMAIN ret.requests :
                q < r => ret.requests[q].paper <= ret.requests[r].paper
        /\ \A q \in DOMAIN ret.requests :
                ret.requests[q].prompt.title = LoopPapers[ret.requests[q].paper].title

\* a batch of two complete papers with the service failing on some requests:
\* the eight requests of the first paper, then the eight of the second
C21_Witness ==
    /\ ret.op = "generate_multiple_articles"
    /\ Len(call.papers) = 2
    /\ call.fails = {"methodology", "summary"}
    /\ Len(ret.requests) = 2 * Len(Steps)
    /\ \A q \in 1..Len(Steps) :
        ret.requests[q].paper = 1 /\ ret.requests[Len(Steps) + q].paper = 2

----------------------------------------------------------------------------
(* Properties of the corpus file (SpecCorpus) *)

IsPrefix(p, s) == Len(p) <= Len(s) /\ SubSeq(s, 1, Len(p)) = p

\* C27: the excerpt is the first two sentences of the background when it has
\* two, and else its first 200 characters; it holds no text that is not in
\* the background, apart from an ellipsis after a cut
C27_ExcerptOfBackground ==
    ret.op = "integrate_articles" =>
        \A background \in {ret.background}, excerpt \in {ret.articles_data[1].excerpt} :
            \A sentences \in {Split(background, SentenceEnd)} :
                IF Len(sentences) >= 2
                THEN /\ IsPrefix(sentences[1] \o SentenceEnd \o sentences[2], excerpt)
                     /\ IsPrefix(excerpt, background)
                ELSE IF Len(background) > ExcerptLength
                THEN excerpt = SubSeq(background, 1, ExcerptLength) \o Ellipsis
                ELSE excerpt = background

----------------------------------------------------------------------------
(* Properties of the relevance score (SpecScore) *)

\* 10 per category of the high tier and 5 per category of the medium tier
CategoryTerm(result) ==
    10 * Cardinality({i \in DOMAIN result.categories :
                        result.categories[i] \in high_value_categories})
    + 5 * Cardinality({i \in DOMAIN result.categories :
                        result.categories[i] \in medium_value_categories})

\* the keywords that occur in text, whatever the case of its letters
KeywordsIn(text) ==
    Only({{k \in DOMAIN important_keywords : Contains(lower, important_keywords[k])} :
            lower \in {Lower(text)}})

\* 3 per keyword in the title, 1 per keyword in the abstract only
KeywordTerm(result) ==
    3 * Cardinality(KeywordsIn(result.title))
    + Cardinality(KeywordsIn(result.summary) \ KeywordsIn(result.title))

RecencyTerm(age) ==
    CASE age <= 1 -> 5
      [] age > 1 /\ age <= 7 -> 3
      [] age > 7 /\ age <= 30 -> 1
      [] OTHER -> 0

LengthTerm(result) ==
    CASE Len(result.summary) > 1000 -> 2
      [] Len(result.summary) > 500 /\ Len(result.summary) <= 1000 -> 1
      [] OTHER -> 0

\* C24: the relevance score is the sum of the category term, the keyword
\* term, the recency bonus and the length bonus; it is a non-negative integer
\* and does not increase when the same paper is scored later
C24_ScoreIsSumOfTerms ==
    ret.op = "calculate_relevance_score" =>
        /\ ret.score = CategoryTerm(call.result) + KeywordTerm(call.result)
                        + RecencyTerm(today - call.result.published)
                        + LengthTerm(call.result)
        /\ ret.score \in Nat
        /\ ret.next_day <= ret.score

\* a result of three scored categories whose one title keyword is also one
\* of the two keywords of its abstract, one day old: 25 + (3 + 1) + 5 + 0,
\* and 2 less a day later
C24_Witness ==
    /\ ret.op = "calculate_relevance_score"
    /\ call.result.categories = <<"cs.CV", "cs.LG", "stat.ML">>
    /\ Cardinality(KeywordsIn(call.result.title)) = 1
    /\ Cardinality(KeywordsIn(call.result.summary)) = 2
    /\ KeywordsIn(call.result.title) \subseteq KeywordsIn(call.result.summary)
    /\ today - call.result.published = 1
    /\ ret.score = 34
    /\ ret.next_day = 32

----------------------------------------------------------------------------
(* Properties of the search (SpecSearch) *)

\* everything the three queries yielded, in order
Yielded == call.outcomes[1].results \o call.outcomes[2].results \o call.outcomes[3].results

\* the results that search_recent_papers accepts: a relevant category and a
\* publication day in the window
Accepted ==
    SelectSeq(Yielded,
        LAMBDA result :
            /\ Range(result.categories) \cap relevant_categories # {}
            /\ result.published \in (today - call.days_back)..today)

\* the first accepted result of the paper id
FirstOccurrence(id) ==
    Accepted[CHOOSE i \in DOMAIN Accepted :
                /\ LastPathPart(Accepted[i].entry_id) = id
                /\ \A j \in 1..(i - 1) : LastPathPart(Accepted[j].entry_id) # id]

\* C25: search_recent_papers returns papers of pairwise distinct ids, at most
\* max_results of them, by non-increasing relevance score, each published
\* within the last days_back days, and each built from the first occurrence
\* of its id among what the queries yielded
C25_SearchContract ==
    ret.op = "search_recent_papers" =>
        /\ \A i, j \in DOMAIN ret.papers : ret.papers[i].id = ret.papers[j].id => i = j
        /\ Len(ret.papers) <= call.max_results
        /\ \A i \in 1..(Len(ret.papers) - 1) :
                ret.papers[i].relevance_score >= ret.papers[i + 1].relevance_score
        /\ \A i \in DOMAIN ret.papers :
            /\ \E d \in (today - call.days_back)..today :
                    ret.papers[i].published = isoformat(d)
            /\ \E k \in DOMAIN Accepted :
                    LastPathPart(Accepted[k].entry_id) = ret.papers[i].id
            /\ ret.papers[i].categories = FirstOccurrence(ret.papers[i].id).categories
            /\ ret.papers[i].title = FirstOccurrence(ret.papers[i].id).title

\* a failing first query yields the paper, the second yields it cross-listed
\* together with another paper, the third yields a paper that is too old:
\* two papers are returned, the lower-scored first occurrence among them
C25_Witness ==
    /\ ret.op = "search_recent_papers"
    /\ call.outcomes[1] = [results |-> <<Raw1>>, raised |-> TRUE]
    /\ call.outcomes[2].results = <<Raw2, Raw1Cross>>
    /\ call.outcomes[3].results = <<RawOld, Raw1>>
    /\ call.max_results = 2
    /\ call.days_back = 1
    /\ Len(ret.papers) = 2
    /\ \E i \in DOMAIN ret.papers :
            ret.papers[i].id = Live1 /\ ret.papers[i].categories = <<"cs.LG">>

----------------------------------------------------------------------------
(* Properties of recent-window mode (SpecRecent) *)

\* C26: every paper that recent-window mode processes was published within
\* the last `days` days, and at most max_papers papers are processed
C26_RecentWindow ==
    ret.op = "generate_recent_content" =>
        /\ Len(ret.processed) <= call.max_papers
        /\ \A i \in DOMAIN ret.processed :
            \E d \in (today - call.days)..today : ret.processed[i].published = strftime(d)

----------------------------------------------------------------------------
(* Properties of the characters of an id (SpecEntry) *)

\* an upper-case letter: a character that str.lower() changes, or the
\* upper-case letter of the titles that has no lower-case form
IsUpper(c) == LowerChar(c) # <<c>> \/ c = DoubleStruckR

\* the punctuation of the titles
Punctuation == {"!", "-", "_"}

\* C28: the id of a title holds no upper-case letter, no white space and no
\* punctuation but "-" and "_", has no two hyphens in a row and neither
\* starts nor ends with a hyphen
C28_UrlSafeId ==
    ret.op = "create_article_id" =>
        /\ \A i \in DOMAIN ret.id :
            /\ ~IsUpper(ret.id[i])
            /\ ~IsSpace(ret.id[i])
            /\ ret.id[i] \in Punctuation => ret.id[i] \in {"-", "_"}
        /\ \A i \in 1..(Len(ret.id) - 1) : ~(ret.id[i] = "-" /\ ret.id[i + 1] = "-")
        /\ ret.id # <<>> => Head(ret.id) # "-" /\ ret.id[Len(ret.id)] # "-"

----------------------------------------------------------------------------
(* Properties of the report of the daily run (SpecSource) *)

\* C29: when the daily run reports that it completed successfully with at
\* least one generated article, articles.json holds an entry for each of these
\* articles, and the run did not report a failed integration
C29_SuccessMeansIntegrated ==
    (/\ ret.op = "run_daily_update"
     /\ ret.generated # <<>>
     /\ ret.printed[Len(ret.printed)] = "Daily update completed successfully.") =>
        /\ IsList(corpus)
        /\ \A i \in DOMAIN ret.generated : ret.generated[i] \in CorpusPaperIds(corpus)
        /\ "Error integrating articles" \notin Range(ret.printed)

====
